---- MODULE Spec2Model ----
(***************************************************************************)
(* Model of the LAKEsuperior LDP lifecycle engine (model/ldpr.py) and of   *)
(* the resource-centric store layout (store_layouts/ldp_rs/                *)
(* rsrc_centric_layout.py).                                                *)
(*                                                                         *)
(* The quad store is a set of quads <<graph, s, p, o>>.  A uid is the      *)
(* sequence of its path segments (<<>> is the root node, <<"a","b">> is    *)
(* a/b).  The identity of a resource is its uid: the uid/URN/URI           *)
(* conversions of the toolbox are not part of these sources, and a uid and *)
(* the URN fcres:<uid> name the same resource here.                        *)
(*                                                                         *)
(* A public operation is one action.  Inside it the code runs as a chain   *)
(* of steps over a request context (working store, committed store,       *)
(* changelog, trace of commits/rollbacks/events, pending exception).       *)
(***************************************************************************)
EXTENDS Naturals, Sequences, FiniteSets, TLC

----------------------------------------------------------------------------
(* Bounds of the model.                                                    *)

\* number of requests in a run (the request timestamp is the request index)
MaxOps == 2
\* number of identifiers uuid4() hands out in a run
MaxUuid == 2
\* a store call may raise StoreError: call number 1..MaxFail, or none
MaxFail == 4

\* number of requests in a run without store faults (SpecNoFault)
MaxOpsNoFault == 4
\* requests that fail, at most; nothing is served after the last of them
MaxErrors == 1

----------------------------------------------------------------------------
(* RDF terms.  Every term is a 4-tuple <<kind, uid, string, number>>.      *)

RootUid == << >>

Uids == { <<"a">>, <<"a", "b">>, <<"a", "b", "c">> }

AllUids == Uids \cup {RootUid}

Res(u) == <<"res", u, "", 0>>

\* a hash fragment of fcres:<uid> (the number field is the fragment flag)
Frag(u) == <<"res", u, "", 1>>

\* the external URI of a resource, <webroot>/<uid>
Uri(u) == <<"uri", u, "", 0>>

Ver(u, l) == <<"ver", u, l, 0>>

VersCont(u) == <<"vers", u, "", 0>>

Iri(s) == <<"iri", << >>, s, 0>>

Lit(s) == <<"lit", << >>, s, 0>>

Ts(n) == <<"ts", << >>, "", n>>

\* a term of the repository that does not resolve to any resource
Ghost == <<"res", <<"ghost">>, "", 0>>

\* None in a triple pattern
AnyTerm == <<"any", << >>, "", 0>>

AnyPred == "*"

ROOT_NODE_URN == Res(RootUid)

DEFAULT_USER == Lit("BypassAdmin")

RES_CREATED == "_create_"

RES_DELETED == "_delete_"

RES_UPDATED == "_update_"

RdfType == "rdf:type"

base_types == { Iri("fcrepo:Resource"), Iri("ldp:Resource"), Iri("ldp:RDFSource") }

protected_pred == { "fcrepo:created", "fcrepo:createdBy", "ldp:contains" }

\* lakesuperior.dictionaries.srv_mgd_terms
srv_mgd_predicates ==
    { "ebucore:hasMimeType", "fcrepo:created", "fcrepo:createdBy",
      "fcrepo:hasParent", "fcrepo:hasVersion", "fcrepo:lastModified",
      "fcrepo:lastModifiedBy", "fcsystem:tombstone", "ldp:contains",
      "premis:hasMessageDigest", "premis:hasSize" }

srv_mgd_types ==
    { Iri("fcrepo:Binary"), Iri("fcrepo:Container"), Iri("fcrepo:Pairtree"),
      Iri("fcrepo:Resource"), Iri("fcrepo:Version"), Iri("fcsystem:Tombstone"),
      Iri("ldp:BasicContainer"), Iri("ldp:Container"),
      Iri("ldp:DirectContainer"), Iri("ldp:IndirectContainer"),
      Iri("ldp:NonRDFSource"), Iri("ldp:RDFSource"), Iri("ldp:Resource") }

----------------------------------------------------------------------------
(* Graphs of the resource-centric layout.  A graph name is a term          *)
(* <<family, uid, version label, 0>>; label "" is the current state.       *)

Gr(fam, u, l) == <<fam, u, l, 0>>

META_GR_URI == Gr("meta", << >>, "")

HIST_GR_URI == Gr("hist", << >>, "")

_admin_uri(u, l) == Gr("admin", u, l)

_main_uri(u, l) == Gr("main", u, l)

_struct_uri(u, l) == Gr("struct", u, l)

\* nsc['fcres'][uid] for a plain uid and for a versioned one (uid:ver_uid)
TopicOf(u, l) == IF l = "" THEN Res(u) ELSE <<"resv", u, l, 0>>

GraphOf(st, g) == { <<q[2], q[3], q[4]>> : q \in { x \in st : x[1] = g } }

QuadsOf(g, trp) == { <<g, t[1], t[2], t[3]>> : t \in trp }

Matches(t, pat) ==
    /\ pat[1] = AnyTerm \/ pat[1] = t[1]
    /\ pat[2] = AnyPred \/ pat[2] = t[2]
    /\ pat[3] = AnyTerm \/ pat[3] = t[3]

IsPattern(t) == t[1] = AnyTerm \/ t[2] = AnyPred \/ t[3] = AnyTerm

AdminPreds ==
    { "fcrepo:created", "fcrepo:createdBy", "fcrepo:hasParent",
      "fcrepo:lastModified", "fcrepo:lastModifiedBy",
      "ldp:membershipResource", "ldp:hasMemberRelation",
      "ldp:insertedContentRelation", "iana:describedBy",
      "premis:hasMessageDigest", "premis:hasSize" }

AdminTypes ==
    { Iri("fcrepo:Binary"), Iri("fcrepo:Container"), Iri("fcrepo:Pairtree"),
      Iri("fcrepo:Resource"), Iri("ldp:BasicContainer"), Iri("ldp:Container"),
      Iri("ldp:DirectContainer"), Iri("ldp:IndirectContainer"),
      Iri("ldp:NonRDFSource"), Iri("ldp:RDFSource"), Iri("ldp:Resource") }

StructPreds == { "fcsystem:contains", "ldp:contains", "pcdm:hasMember" }

\* the graph family a triple is routed to
attr_routes(t) ==
    IF t[2] \in AdminPreds THEN "admin"
    ELSE IF t[2] \in StructPreds THEN "struct"
    ELSE IF t[2] = RdfType /\ t[3] \in AdminTypes THEN "admin"
    ELSE "main"

_map_graph_uri(t, u, l) == Gr(attr_routes(t), u, l)

\* a layout that registers no graph in META_GR
modify_rsrc_unregistered(st, u, l, remove_trp, add_trp) ==
    (st \ { q \in st : \E t \in remove_trp :
                /\ q[1] = _map_graph_uri(t, u, l)
                /\ Matches(<<q[2], q[3], q[4]>>, t) })
      \cup { <<_map_graph_uri(t, u, l), t[1], t[2], t[3]>> : t \in add_trp }

\* a layout that also copies every added triple to the main graph
modify_rsrc_copy_to_main(st, u, l, remove_trp, add_trp) ==
    (st \ { q \in st : \E t \in remove_trp :
                /\ q[1] = _map_graph_uri(t, u, l)
                /\ Matches(<<q[2], q[3], q[4]>>, t) })
      \cup { <<_map_graph_uri(t, u, l), t[1], t[2], t[3]>> : t \in add_trp }
      \cup { <<_main_uri(u, l), t[1], t[2], t[3]>> : t \in add_trp }
      \cup { <<META_GR_URI, _map_graph_uri(t, u, l), "foaf:primaryTopic",
               TopicOf(u, l)>> : t \in add_trp }

\* remove first, then add; every graph added to is registered in META_GR
modify_rsrc(st, u, l, remove_trp, add_trp) ==
    LET removed == { q \in st : \E t \in remove_trp :
                        /\ q[1] = _map_graph_uri(t, u, l)
                        /\ Matches(<<q[2], q[3], q[4]>>, t) }
        added == { <<_map_graph_uri(t, u, l), t[1], t[2], t[3]>> : t \in add_trp }
        meta == { <<META_GR_URI, _map_graph_uri(t, u, l), "foaf:primaryTopic",
                    TopicOf(u, l)>> : t \in add_trp }
    IN  (st \ removed) \cup added \cup meta

ask_rsrc_exists(st, u) ==
    <<Res(u), RdfType, Iri("fcrepo:Resource")>> \in GraphOf(st, _admin_uri(u, ""))

get_inbound_rel(st, urn) ==
    { <<q[2], q[3], q[4]>> : q \in { x \in st :
        /\ x[4] = urn
        /\ <<META_GR_URI, x[1], "foaf:primaryTopic", x[2]>> \in st } }

\* a reading that ignores the label and returns the current main graph
get_version_current(st, u, l) == GraphOf(st, _main_uri(u, ""))

get_version(st, u, l) ==
    GraphOf(st, _main_uri(u, l))

\* RsrcCentricLayout.delete_rsrc_data; backup_uid "" is None.  MOVE SILENT
\* main TO backup (the backup graph becomes what main was), else DROP main;
\* then DROP main again and DROP struct
delete_rsrc_data(st, u, backup_uid) ==
    LET Drop(st1, g) == { q \in st1 : q[1] # g }
        Move(from, to) ==
            Drop(Drop(st, to), from) \cup QuadsOf(to, GraphOf(st, from))
        First == IF backup_uid # ""
                   THEN Move(_main_uri(u, ""), _main_uri(u, backup_uid))
                 ELSE Drop(st, _main_uri(u, ""))
    IN  Drop(Drop(First, _main_uri(u, "")), _struct_uri(u, ""))

\* the result of a layout call that writes: the exception and the store
Written(e, st) == [err |-> e, st |-> st]

\* RsrcCentricLayout.purge_rsrc; resume says that the debugger pdb.set_trace()
\* stops in is told to continue (the other outcome is BdbQuit)
purge_rsrc(st, u, inbound, resume) ==
    LET \* DELETE { GRAPH ?g { ?s1 ?p1 ?s } } for ?s among the subjects found,
        \* ?g registered in META_GR with the topic ?s1
        Inbound(st2, subj) ==
            IF inbound
              THEN st2 \ { q \in st2 :
                             /\ q[4] \in subj
                             /\ <<META_GR_URI, q[1], "foaf:primaryTopic", q[2]>>
                                   \in st2 }
            ELSE st2
        \* DELETE { GRAPH ?g { <g1> ?p ?o . <g2> ?p ?o . ... } } with ?g in
        \* META_GR, HIST_GR: one ?g, ?p, ?o for all the graphs dropped
        Registry(st1, gs) ==
            st1 \ { q \in st1 :
                      /\ q[1] \in { META_GR_URI, HIST_GR_URI }
                      /\ q[2] \in gs
                      /\ \A gi \in gs : <<q[1], gi, q[3], q[4]>> \in st1 }
        Update(gs, subj) ==
            IF ~resume THEN Written("BdbQuit", st)
            ELSE IF gs = {} THEN Written("ParseException", st)
            ELSE Written("ok",
                     Inbound(Registry({ q \in st : q[1] \notin gs }, gs), subj))
        Rows(gs) == Update(gs, { q[2] : q \in { x \in st : x[1] \in gs } })
    IN  Rows({ q[2] : q \in { x \in st :
                  /\ x[3] = "foaf:primaryTopic"
                  /\ x[4] = Res(u)
                  /\ \E y \in st : y[1] = x[2] } })

\* the result of a read: the pending exception ("ok" for none) and the graph
Imr(e, gr) == [err |-> e, gr |-> gr]

extract_imr(st, u, strict, incl_inbound, incl_children) ==
    LET Check(gr) ==
            IF strict /\ gr = {} THEN Imr("ResourceNotExistsError", {})
            ELSE IF <<Res(u), RdfType, Iri("fcsystem:Tombstone")>> \in gr
              \* g is not a name of the layout module: building the
              \* TombstoneError raises NameError
              THEN IF strict THEN Imr("NameError", {}) ELSE Imr("ok", gr)
            ELSE IF \E t \in gr : t[1] = Res(u) /\ t[2] = "fcsystem:tombstone"
              \* strict: g is not a name; not strict: uri is not a name
              THEN Imr("NameError", {})
            ELSE Imr("ok", gr)
        Inbound(gr) ==
            Check(IF incl_inbound /\ gr # {}
                    THEN gr \cup get_inbound_rel(st, Res(u)) ELSE gr)
    IN  Inbound(GraphOf(st, _admin_uri(u, "")) \cup GraphOf(st, _main_uri(u, ""))
                  \cup (IF incl_children THEN GraphOf(st, _struct_uri(u, ""))
                        ELSE {}))

----------------------------------------------------------------------------
(* State.                                                                  *)

VARIABLES
    store,      \* the committed contents of the quad store
    clock,      \* number of requests served; request k carries timestamp k
    uuids,      \* number of identifiers uuid4() has handed out
    refint,     \* config: referential_integrity ("off", "lenient", "strict")
    messaging,  \* config: messaging
    errors,     \* number of requests that raised an exception
    last,       \* what the last request did (see Outcome)
    requests    \* the requests in flight at the same time (see SpecConc)

vars == <<store, clock, uuids, refint, messaging, errors, last, requests>>

\* uuid4(): the k-th identifier handed out
AutoLabels == <<"u1", "u2", "u3", "u4", "u5", "u6", "u7", "u8">>

uuid4(k) == AutoLabels[k + 1]

\* version labels a client passes ("" is the empty label)
UserLabels == { "v1", "" }

----------------------------------------------------------------------------
(* The missing parts of the store layer, modelled from the specification.  *)

\* bootstrap(): the root node's graphs and the META_GR seed
bootstrap ==
    modify_rsrc({}, RootUid, "", {},
        { <<ROOT_NODE_URN, RdfType, Iri("fcrepo:Resource")>>,
          <<ROOT_NODE_URN, RdfType, Iri("ldp:Resource")>>,
          <<ROOT_NODE_URN, RdfType, Iri("ldp:RDFSource")>>,
          <<ROOT_NODE_URN, RdfType, Iri("ldp:Container")>>,
          <<ROOT_NODE_URN, RdfType, Iri("ldp:BasicContainer")>>,
          <<ROOT_NODE_URN, "fcrepo:created", Ts(0)>>,
          <<ROOT_NODE_URN, "fcrepo:lastModified", Ts(0)>> })

\* modify_dataset(remove_trp, add_trp, types) called by resource u:
\*  types {fcrepo:Version}: the triples go to the graphs of version l of u
\*    and the version graphs are recorded in HIST_GR;
\*  types {fcrepo:Metadata}: the triples go to admin(u);
\*  otherwise: triple patterns (None fields) are removed wherever they
\*    match, the other triples are routed by modify_rsrc to the graphs of
\*    the resource their subject names (the call carries no uid).
modify_dataset(st, u, remove_trp, add_trp, types, l) ==
    IF types = "Version"
      THEN modify_rsrc(st, u, l, {}, add_trp)
             \cup { <<HIST_GR_URI, _map_graph_uri(t, u, l), "foaf:primaryTopic",
                      Res(u)>> : t \in add_trp }
    ELSE IF types = "Metadata"
      THEN st \cup QuadsOf(_admin_uri(u, ""), add_trp)
              \cup { <<META_GR_URI, _admin_uri(u, ""), "foaf:primaryTopic", Res(u)>> }
    ELSE LET pats == { t \in remove_trp : IsPattern(t) }
             hit == { q \in st : /\ q[1] \notin {META_GR_URI, HIST_GR_URI}
                                 /\ \E t \in pats : Matches(<<q[2], q[3], q[4]>>, t) }
             Owner(t) == IF t[1][1] = "res" THEN t[1][2] ELSE u
             Of(trp, v) == { t \in trp : Owner(t) = v }
             Route(kept, rem, owners) ==
                (kept \ UNION { kept \ modify_rsrc(kept, v, "", Of(rem, v), {})
                                : v \in owners })
                  \cup UNION { modify_rsrc({}, v, "", {}, Of(add_trp, v))
                               : v \in owners }
         IN  Route(st \ hit, remove_trp \ pats,
                   { Owner(t) : t \in (remove_trp \ pats) \cup add_trp })

\* get_version_info(urn): the version statements kept with the resource
get_version_info(st, u) ==
    LET ag == GraphOf(st, _admin_uri(u, ""))
        vs == { t[3] : t \in { x \in ag : x[1] = Res(u) /\ x[2] = "fcrepo:hasVersion" } }
    IN  { t \in ag : (t[1] = Res(u) /\ t[2] = "fcrepo:hasVersion") \/ t[1] \in vs }

\* toolbox.replace_term_domain(term, urn, ver_urn): a term under fcres:<uid>
\* (the urn, a fragment, a version of it) moves under the version urn
replace_term_domain(term, u, l) ==
    IF term[1] = "res" /\ term[2] = u THEN <<"ver", u, l, term[4]>>
    ELSE IF term[1] = "ver" /\ term[2] = u THEN <<"ver", u, l, 2>>
    ELSE term

\* toolbox.rdf_cksum(gr): a number that changes with the user triples
TripleCode(t) ==
    IF t[2] = "ex:p" /\ t[3] = Lit("1") THEN 1
    ELSE IF t[2] = "ex:p" /\ t[3] = Lit("2") THEN 2
    ELSE IF t[2] = "ex:ref" /\ t[3][1] = "uri" THEN 32
    ELSE IF t[2] = "ex:ref" THEN 4
    ELSE IF t[2] = RdfType /\ t[3] = Iri("ldp:Container") THEN 8
    ELSE IF t[1][4] = 1 THEN 16
    ELSE 0

RECURSIVE SumCodes(_)
SumCodes(gr) ==
    IF gr = {} THEN 0
    ELSE LET t == CHOOSE x \in gr : TRUE
         IN  TripleCode(t) + SumCodes(gr \ {t})

rdf_cksum(gr) == <<"sha1", << >>, "", SumCodes(gr)>>

\* the uid a resource term belongs to (toolbox.uri_to_uuid)
uri_to_uuid(term) == term[2]

\* toolbox.uuid_to_uri(uid): <webroot>/<uid>, the webroot for the empty uid
uuid_to_uri(u) == Uri(u)

\* a trailing slash survives localisation: the variant localize_term
\* is measured against
localize_term_keep_slash(t) ==
    IF t[1] = "uri" THEN <<"res", t[2], "", t[4]>> ELSE t

\* <webroot>/<uid> and <webroot>/<uid>/ both become fcres:<uid>, the
\* webroot becomes fcsystem:root, anything else is left alone
localize_term(t) ==
    IF t[1] = "uri"
      THEN <<"res", t[2], "", IF t[4] = 2 THEN 0 ELSE t[4]>>
    ELSE t

\* fcres:<uid> becomes <webroot>/<uid>, fcsystem:root the webroot
globalize_term(t) ==
    IF t[1] = "res" THEN <<"uri", t[2], "", t[4]>> ELSE t

----------------------------------------------------------------------------
(* The request context.                                                    *)
(*   ws    working contents of the store (the open transaction)            *)
(*   cs    committed contents                                              *)
(*   cl    request.changelog                                               *)
(*   tr    commits, rollbacks and event emissions, in order                *)
(*   err   the exception being raised, "ok" for none                       *)
(*   n     store writes issued so far; write number fail raises StoreError *)
(*   uu    identifiers uuid4() has handed out                              *)
(*   has, imr   the _imr cache of the resource object the code runs on     *)
(*   ts    g.timestamp                                                     *)
(*   evfail  the number of the event message whose sending raises, 0: none *)
(*   pre   contents of the store when the request came in                  *)
(* A step takes the context and returns the next one; a step that finds    *)
(* an exception pending does nothing.                                      *)

NewCtx(st, failAt, uu, ts) ==
    [ ws |-> st, cs |-> st, cl |-> << >>, tr |-> << >>, err |-> "ok",
      n |-> 0, fail |-> failAt, uu |-> uu, has |-> FALSE, imr |-> {},
      ts |-> ts, pre |-> st, evfail |-> 0 ]

Fails(ctx) == ctx.err # "ok"

Raise(ctx, e) == IF Fails(ctx) THEN ctx ELSE [ctx EXCEPT !.err = e]

\* one round trip that writes to the store
StoreWrite(ctx, st) ==
    IF Fails(ctx) THEN ctx
    ELSE IF ctx.n + 1 = ctx.fail
      THEN [ctx EXCEPT !.n = @ + 1, !.err = "StoreError"]
    ELSE [ctx EXCEPT !.n = @ + 1, !.ws = st]

\* self._imr = the result r of a read, or the exception of the read
SetImr(ctx, r) ==
    IF r.err # "ok" THEN Raise(ctx, r.err)
    ELSE [ctx EXCEPT !.has = TRUE, !.imr = r.gr]

\* Ldpr.imr: the cached strict read
LoadImr(ctx, u) ==
    IF Fails(ctx) \/ ctx.has THEN ctx
    ELSE SetImr(ctx, extract_imr(ctx.ws, u, TRUE, FALSE, TRUE))

\* LdpFactory.from_stored(uid, repr_opts={'incl_children': False}): a strict
\* read that becomes the _imr of the new resource object
from_stored(ctx, u) ==
    IF Fails(ctx) THEN ctx
    ELSE SetImr(ctx, extract_imr(ctx.ws, u, TRUE, FALSE, FALSE))

\* the code ran on another resource object: back to the caller's _imr
Back(ctx, caller) == [ctx EXCEPT !.has = caller.has, !.imr = caller.imr]

Subjects(trp) == { t[1] : t \in trp }

ChangelogEntry(remove_trp, add_trp, ev_type, time, type, actor) ==
    [ rem |-> remove_trp, add |-> add_trp, ev_type |-> ev_type, time |-> time,
      type |-> type, actor |-> actor ]

\* Ldpr._modify_rsrc; graphs says that both triple sets are rdflib Graphs
_modify_rsrc(ctx, u, ev_type, remove_trp, add_trp, notify, graphs) ==
    LET Mine(merge_gr) ==
            IF graphs THEN { t \in merge_gr : t[1] = Res(u) } ELSE merge_gr
        Objects(gr, p) == { t[3] : t \in { x \in gr : x[2] = p } }
        Entry(mine) ==
            ChangelogEntry(remove_trp, add_trp, ev_type, ctx.ts,
                           Objects(mine, RdfType), Objects(mine, "fcrepo:createdBy"))
        Log(c1) ==
            IF Fails(c1) \/ ~(notify /\ messaging) THEN c1
            ELSE [c1 EXCEPT !.cl = Append(@, Entry(Mine(remove_trp \cup add_trp)))]
    IN  Log(StoreWrite(ctx,
                modify_dataset(ctx.ws, u, remove_trp, add_trp, "none", "")))

----------------------------------------------------------------------------
(* Ldpr: containment.                                                      *)

Prefix(u, k) == SubSeq(u, 1, k)

\* rdflib Resource.value(p): some object of (urn, p, ?o), AnyTerm for None
Value(gr, urn, p) ==
    IF \E t \in gr : t[1] = urn /\ t[2] = p
      THEN (CHOOSE t \in gr : t[1] = urn /\ t[2] = p)[3]
    ELSE AnyTerm

\* .identifier is an attribute of URI values only
HasIdentifier(term) == term[1] \in {"res", "uri", "iri", "ver", "vers"}

\* a path segment made as an extant resource that contains its child
_create_path_segment_extant(ctx, u, seg, child, real_parent) ==
    StoreWrite(ctx, modify_dataset(ctx.ws, seg, {},
        { <<Res(seg), RdfType, Iri("fcrepo:Resource")>>,
          <<Res(seg), RdfType, Iri("fcrepo:Pairtree")>>,
          <<Res(seg), "ldp:contains", Res(child)>>,
          <<Res(seg), "fcrepo:hasParent", Res(real_parent)>> },
        "none", ""))

_create_path_segment(ctx, u, seg, child, real_parent) ==
    StoreWrite(ctx, modify_dataset(ctx.ws, seg, {},
        { <<Res(seg), RdfType, Iri("ldp:Container")>>,
          <<Res(seg), RdfType, Iri("ldp:BasicContainer")>>,
          <<Res(seg), RdfType, Iri("ldp:RDFSource")>>,
          <<Res(seg), RdfType, Iri("fcrepo:Pairtree")>>,
          <<Res(seg), "fcrepo:contains", Res(child)>>,
          <<Res(seg), "ldp:contains", Res(u)>>,
          <<Res(seg), "fcrepo:hasParent", Res(real_parent)>> }
        \cup (IF Len(seg) = 1
                THEN { <<ROOT_NODE_URN, "fcrepo:contains", Res(seg)>> }
                ELSE {}),
        "none", ""))

\* the extant proper path prefix nearest to the root
ParentDepth_shallowest(st, u) ==
    LET Nearest(ks) == IF ks = {} THEN 0 ELSE CHOOSE k \in ks : \A j \in ks : k <= j
    IN  Nearest({ k \in 1..(Len(u) - 1) : ask_rsrc_exists(st, Prefix(u, k)) })

\* the deepest proper path prefix that is an extant resource; 0 for none
ParentDepth(st, u) ==
    LET Deepest(ks) == IF ks = {} THEN 0 ELSE CHOOSE k \in ks : \A j \in ks : j <= k
    IN  Deepest({ k \in 1..(Len(u) - 1) : ask_rsrc_exists(st, Prefix(u, k)) })

\* the segments k, k-1, ..., down+1, deepest first
RECURSIVE SegLoop(_, _, _, _, _)
SegLoop(ctx, u, k, down, real_parent) ==
    IF k <= down THEN ctx
    ELSE SegLoop(_create_path_segment(ctx, u, Prefix(u, k), Prefix(u, k + 1),
                                      real_parent),
                 u, k - 1, down, real_parent)

\* returns the context and the uid of the parent
_find_parent_or_create_pairtree(ctx, u) ==
    LET Found(d) == [ctx |-> SegLoop(ctx, u, Len(u) - 1, d, Prefix(u, d)),
                     parent |-> Prefix(u, d)]
    IN  IF Len(u) < 2 THEN [ctx |-> ctx, parent |-> RootUid]
        ELSE Found(ParentDepth(ctx.ws, u))

\* every container is taken for a direct container
IsDirectContainer_any(cont_imr, cont_u) == TRUE

\* cont_rsrc.imr[RDF.type : nsc['ldp'].DirectContainer]
IsDirectContainer(cont_imr, cont_u) ==
    <<Res(cont_u), RdfType, Iri("ldp:DirectContainer")>> \in cont_imr

\* provided is the graph of self.provided_imr; has_provided is FALSE when
\* provided_imr is None
_add_ldp_dc_ic_rel(ctx, u, cont_u, cont_imr, provided, has_provided) ==
    LET cont_p == { t[2] : t \in cont_imr }
        s == localize_term(Value(cont_imr, Res(cont_u), "ldp:membershipResource"))
        p == Value(cont_imr, Res(cont_u), "ldp:hasMemberRelation")
        member == "ldp:membershipResource" \in cont_p
                    /\ "ldp:hasMemberRelation" \in cont_p
        isDC == IsDirectContainer(cont_imr, cont_u)
        isIC == /\ ~isDC
                /\ <<Res(cont_u), RdfType, Iri("ldp:IndirectContainer")>> \in cont_imr
                /\ "ldp:insertedContentRelation" \in cont_p
        cont_rel == Value(cont_imr, Res(cont_u), "ldp:insertedContentRelation")
        Target(rel) == IF has_provided /\ HasIdentifier(rel)
                         THEN Value(provided, Res(u), rel[3]) ELSE AnyTerm
        \* .identifier of None or of a literal
        noIdentifier ==
            member /\ ( \/ ~HasIdentifier(s)
                        \/ ~HasIdentifier(p)
                        \/ isIC /\ ~HasIdentifier(Target(cont_rel)) )
        add_gr == { <<Res(u), "fcrepo:hasParent", Res(cont_u)>> }
                  \cup (IF member /\ isDC THEN { <<s, p[3], Res(u)>> }
                        ELSE IF member /\ isIC
                          THEN { <<s, p[3], Target(cont_rel)>> }
                        ELSE {})
    IN  IF Fails(ctx) THEN ctx
        ELSE IF noIdentifier THEN Raise(ctx, "AttributeError")
        ELSE _modify_rsrc(ctx, u, RES_UPDATED, {}, add_gr, TRUE, TRUE)

_set_containment_rel(ctx, u, provided, has_provided) ==
    LET Link(c2, parent) ==
            _add_ldp_dc_ic_rel(
                _modify_rsrc(c2, parent, RES_UPDATED, {},
                             { <<Res(parent), "ldp:contains", Res(u)>> },
                             TRUE, TRUE),
                u, parent, c2.imr, provided, has_provided)
        Parent(fp) == Link(from_stored(fp.ctx, fp.parent), fp.parent)
    IN  IF Fails(ctx) \/ u = RootUid THEN ctx
        ELSE Back(Parent(_find_parent_or_create_pairtree(ctx, u)), ctx)

----------------------------------------------------------------------------
(* Ldpr: create and replace.                                               *)

\* rdflib Resource.set(p, o)
SetValue(gr, urn, p, o) ==
    { t \in gr : ~(t[1] = urn /\ t[2] = p) } \cup { <<urn, p, o>> }

_add_srv_mgd_triples(provided, u, create, ts) ==
    LET Stamp(gr) ==
            SetValue(SetValue(gr, Res(u), "fcrepo:lastModified", Ts(ts)),
                     Res(u), "fcrepo:lastModifiedBy", DEFAULT_USER)
        Created(gr) ==
            IF create
              THEN SetValue(SetValue(gr, Res(u), "fcrepo:created", Ts(ts)),
                            Res(u), "fcrepo:createdBy", DEFAULT_USER)
            ELSE gr
        Digest(gr) == SetValue(gr, Res(u), "premis:hasMessageDigest", rdf_cksum(gr))
    IN  Stamp(Created(Digest(
            provided \cup { <<Res(u), RdfType, t>> : t \in base_types })))

\* '#' in s
IsFragment(term) == term[1] = "res" /\ term[4] = 1

FragmentBase(term) == <<"res", term[2], "", 0>>

\* a check that lets every subject pass and records no fragment
_ensure_single_subject_rdf_lax(gr, u) == Imr("ok", gr)

\* returns the exception and the graph with the fragmentOf triples added
_ensure_single_subject_rdf(gr, u) ==
    LET Base(s) == IF IsFragment(s) THEN FragmentBase(s) ELSE s
        gr1 == gr \cup { <<f, "fcsystem:fragmentOf", FragmentBase(f)>> :
                            f \in { x \in Subjects(gr) : IsFragment(x) } }
    IN  IF \E x \in Subjects(gr) : Base(x) # Res(u)
          THEN Imr("SingleSubjectError", gr1)
        ELSE Imr("ok", gr1)

\* str(o).startswith(g.webroot) and not self.rdfly.ask_rsrc_exists(o): an
\* object under the webroot, and the layout is asked with the URI itself in
\* the place of a uid
Dangling(st, o) == o[1] = "uri" /\ ~ask_rsrc_exists(st, o)

_check_ref_int(st, gr, config) ==
    LET Check(bad) ==
            IF bad = {} THEN Imr("ok", gr)
            ELSE IF config = "strict" THEN Imr("RefIntViolationError", gr)
            ELSE Imr("ok", gr \ bad)
    IN  Check({ t \in gr : Dangling(st, t[3]) })

\* the deltas handed on as they come
_dedup_deltas_as_given(remove_gr, add_gr) == <<remove_gr, add_gr>>

_dedup_deltas(remove_gr, add_gr) == <<remove_gr \ add_gr, add_gr \ remove_gr>>

\* self.imr = v
AssignImr(ctx, v) ==
    IF Fails(ctx) THEN ctx ELSE [ctx EXCEPT !.has = TRUE, !.imr = v]

_create_rsrc(ctx, u, provided) ==
    AssignImr(_modify_rsrc(ctx, u, RES_CREATED, {}, provided, TRUE, TRUE),
              provided)

\* a replace that takes the whole stored graph as the triples to remove
_replace_rsrc_unprotected(ctx, u, provided) ==
    LET Replace(c0, delta) ==
            AssignImr(_modify_rsrc(c0, u, RES_UPDATED, delta[1], delta[2],
                                   TRUE, TRUE),
                      delta[2])
        Loaded(c0) == Replace(c0, _dedup_deltas(c0.imr, provided))
    IN  Loaded(LoadImr(ctx, u))

_replace_rsrc(ctx, u, provided) ==
    LET Replace(c0, delta) ==
            AssignImr(_modify_rsrc(c0, u, RES_UPDATED, delta[1], delta[2],
                                   TRUE, TRUE),
                      delta[2])
        Loaded(c0) ==
            Replace(c0, _dedup_deltas(
                { t \in c0.imr : ~(t[1] = Res(u) /\ t[2] \in protected_pred) },
                provided))
    IN  Loaded(LoadImr(ctx, u))

is_stored(ctx, u) ==
    IF ctx.has THEN ctx.imr # {} ELSE ask_rsrc_exists(ctx.ws, u)

\* the event type returned is RES_CREATED iff WillCreate
WillCreate(ctx, u, create_only) == create_only \/ ~is_stored(ctx, u)

_create_or_replace_rsrc(ctx, u, provided_imr, create_only) ==
    LET RefInt(p2) ==
            IF p2.err # "ok" \/ refint = "off" THEN p2
            ELSE _check_ref_int(ctx.ws, p2.gr, refint)
        Write(p3) ==
            IF p3.err # "ok" THEN Raise(ctx, p3.err)
            ELSE IF WillCreate(ctx, u, create_only) THEN _create_rsrc(ctx, u, p3.gr)
            ELSE _replace_rsrc(ctx, u, p3.gr)
        Store(p3) == _set_containment_rel(Write(p3), u, p3.gr, TRUE)
    IN  IF Fails(ctx) THEN ctx
        ELSE Store(RefInt(_ensure_single_subject_rdf(
                 _add_srv_mgd_triples(provided_imr, u,
                                      WillCreate(ctx, u, create_only), ctx.ts),
                 u)))

----------------------------------------------------------------------------
(* Ldpr: versions, tombstones, purge.                                      *)

\* nothing is left out of a snapshot
VersionExcluded_none(t) == FALSE

\* what a snapshot leaves out
VersionExcluded(t) ==
    \/ /\ t[2] = RdfType
       /\ t[3] \in { Iri("fcrepo:Binary"), Iri("fcrepo:Container"),
                     Iri("fcrepo:Resource") }
    \/ t[2] \in { "fcrepo:hasParent", "fcrepo:hasVersions",
                  "premis:hasMessageDigest" }

_create_rsrc_version(ctx, u, ver_uid) ==
    LET ver_add_gr(imr) ==
            { <<Ver(u, ver_uid), RdfType, Iri("fcrepo:Version")>> } \cup
            { <<replace_term_domain(t[1], u, ver_uid), t[2], t[3]>> :
                  t \in { x \in imr : ~VersionExcluded(x) } }
        meta_add_gr ==
            { <<Res(u), "fcrepo:hasVersion", Ver(u, ver_uid)>>,
              <<Ver(u, ver_uid), "fcrepo:created", Ts(ctx.ts)>>,
              <<Ver(u, ver_uid), "fcrepo:hasVersionLabel", Lit(ver_uid)>> }
        Update(c2) ==
            _modify_rsrc(c2, u, RES_UPDATED, {},
                         { <<Res(u), "fcrepo:hasVersions", VersCont(u)>> },
                         FALSE, TRUE)
        Meta(c1) ==
            Update(StoreWrite(c1,
                modify_dataset(c1.ws, u, {}, meta_add_gr, "Metadata", "")))
        Version(c0) ==
            Meta(StoreWrite(c0,
                modify_dataset(c0.ws, u, {}, ver_add_gr(c0.imr), "Version",
                               ver_uid)))
    IN  Version(LoadImr(ctx, u))

\* for ib_rsrc_uri in subjects: Ldpr(ib_rsrc_uri)._modify_rsrc(RES_UPDATED,
\* {(ib_rsrc_uri, None, self.urn)})
RECURSIVE InboundLoop(_, _, _)
InboundLoop(ctx, subjects, urn) ==
    IF subjects = {} \/ Fails(ctx) THEN ctx
    ELSE LET Rest(ib) ==
                 InboundLoop(
                     _modify_rsrc(ctx, uri_to_uuid(ib), RES_UPDATED,
                                  { <<ib, AnyPred, urn>> }, {}, TRUE, FALSE),
                     subjects \ {ib}, urn)
         IN  Rest(CHOOSE x \in subjects : TRUE)

\* the subjects of the triples of gr that point to urn
InboundSubjects(gr, urn) == Subjects({ t \in gr : t[3] = urn })

\* tstone_pointer is AnyTerm for None
_bury_rsrc(ctx, u, inbound, tstone_pointer) ==
    LET add_trp ==
            IF tstone_pointer # AnyTerm
              THEN { <<Res(u), "fcsystem:tombstone", tstone_pointer>> }
            ELSE { <<Res(u), RdfType, Iri("fcsystem:Tombstone")>>,
                   <<Res(u), "fcrepo:created", Ts(ctx.ts)>> }
        Inbound(c2) ==
            IF inbound THEN InboundLoop(c2, InboundSubjects(c2.imr, Res(u)), Res(u))
            ELSE c2
        Bury(c1) ==
            Inbound(_modify_rsrc(c1, u, RES_DELETED, c1.imr, add_trp, TRUE, TRUE))
    IN  IF Fails(ctx) THEN ctx
        ELSE Bury(_create_rsrc_version([ctx EXCEPT !.uu = @ + 1], u,
                                       uuid4(ctx.uu)))

\* for x in xs: self.rdfly.modify_dataset(pattern set of x)
RECURSIVE RemoveLoop(_, _, _)
RemoveLoop(ctx, u, patternSets) ==
    IF patternSets = {} \/ Fails(ctx) THEN ctx
    ELSE LET Rest(ps) ==
                 RemoveLoop(
                     StoreWrite(ctx, modify_dataset(ctx.ws, u, ps, {}, "none", "")),
                     u, patternSets \ {ps})
         IN  Rest(CHOOSE x \in patternSets : TRUE)

\* Ldpr.versions
versions(st, u) ==
    { t[3] : t \in { x \in get_version_info(st, u) :
                        x[1] = Res(u) /\ x[2] = "fcrepo:hasVersion" } }

\* Ldpr.version_uids
version_uids(st, u) ==
    { t[3][3] : t \in { x \in get_version_info(st, u) :
                        x[1][1] = "ver" /\ x[2] = "fcrepo:hasVersionLabel" } }

_purge_rsrc(ctx, u, inbound) ==
    LET Inbound(c3, gr) ==
            IF inbound THEN InboundLoop(c3, InboundSubjects(gr, Res(u)), Res(u))
            ELSE c3
        Snapshots(c2, gr) ==
            Inbound(RemoveLoop(c2, u,
                        { { <<v, AnyPred, AnyTerm>>, <<AnyTerm, AnyPred, v>> } :
                              v \in versions(c2.ws, u) }),
                    gr)
        Fragments(c1, gr) ==
            Snapshots(RemoveLoop(c1, u,
                          { { <<t[1], AnyPred, AnyTerm>> } :
                                t \in { x \in gr : /\ x[2] = "fcsystem:fragmentOf"
                                                   /\ x[3] = Res(u) } }),
                      gr)
        Purge(r) ==
            IF r.err # "ok" THEN Raise(ctx, r.err)
            ELSE Fragments(
                     StoreWrite(ctx,
                         modify_dataset(ctx.ws, u, { <<Res(u), AnyPred, AnyTerm>> },
                                        {}, "none", "")),
                     r.gr)
    IN  IF Fails(ctx) THEN ctx
        ELSE Purge(extract_imr(ctx.ws, u, FALSE, TRUE, TRUE))

\* imr[ldp:contains * '+']: what the path reaches inside the graph
RECURSIVE ContainsPlus(_, _, _)
ContainsPlus(gr, frontier, seen) ==
    LET Step(nxt) == IF nxt = {} THEN seen ELSE ContainsPlus(gr, nxt, seen \cup nxt)
    IN  Step({ t[3] : t \in { x \in gr :
                  x[1] \in frontier /\ x[2] = "ldp:contains" } } \ seen)

RECURSIVE ChildLoop(_, _, _, _, _)
ChildLoop(ctx, children, u, inbound, leave_tstone) ==
    IF children = {} \/ Fails(ctx) THEN ctx
    ELSE LET Remove(c1, cu) ==
                 IF leave_tstone THEN _bury_rsrc(c1, cu, inbound, Res(u))
                 ELSE _purge_rsrc(c1, cu, inbound)
             Rest(child_uri) ==
                 ChildLoop(
                     Back(Remove(from_stored(ctx, uri_to_uuid(child_uri)),
                                 uri_to_uuid(child_uri)),
                          ctx),
                     children \ {child_uri}, u, inbound, leave_tstone)
         IN  Rest(CHOOSE x \in children : TRUE)

----------------------------------------------------------------------------
(* atomic: the transaction wrapper of the public operations.               *)

NoEntry == ChangelogEntry({}, {}, "", 0, {}, {})

\* one element of the trace: a commit, a rollback, or the event sent for a
\* changelog entry together with the subjects it is about
TraceItem(k, entry, subjects) == [k |-> k, ev |-> entry, subj |-> subjects]

\* the subjects _send_event_msg finds in one changelog entry
_send_event_msg(entry) ==
    TraceItem("event", entry, Subjects(entry.rem) \cup Subjects(entry.add))

\* request.changelog = []
AtomicBegin(ctx) == [ctx EXCEPT !.cl = << >>]

\* the wrapper's else branch done in the wrong order: events, then commit
AtomicEnd_EventsFirst(ctx) ==
    IF Fails(ctx)
      THEN [ctx EXCEPT !.ws = ctx.cs,
                       !.tr = Append(@, TraceItem("rollback", NoEntry, {}))]
    ELSE [ctx EXCEPT !.cs = ctx.ws,
                     !.tr = (@ \o [i \in 1..Len(ctx.cl) |-> _send_event_msg(ctx.cl[i])])
                              \o << TraceItem("commit", NoEntry, {}) >>]

\* the sending of a message raises
EventRaises(ctx) == ctx.evfail \in 1..Len(ctx.cl)

\* the messages sent before the loop over request.changelog ends
EventsSent(ctx) == IF EventRaises(ctx) THEN ctx.evfail - 1 ELSE Len(ctx.cl)

\* except: rollback, raise; else: commit, then one message per entry; an
\* exception of _send_event_msg leaves the loop and the wrapper
AtomicEnd(ctx) ==
    IF Fails(ctx)
      THEN [ctx EXCEPT !.ws = ctx.cs,
                       !.tr = Append(@, TraceItem("rollback", NoEntry, {}))]
    ELSE [ctx EXCEPT !.cs = ctx.ws,
                     !.tr = (@ \o << TraceItem("commit", NoEntry, {}) >>)
                              \o [i \in 1..EventsSent(ctx) |-> _send_event_msg(ctx.cl[i])],
                     !.err = IF EventRaises(ctx) THEN "MessagingError" ELSE "ok"]

----------------------------------------------------------------------------
(* The public operations, each wrapped by atomic.                          *)

post(ctx, u, provided_imr) ==
    AtomicEnd(_create_or_replace_rsrc(AtomicBegin(ctx), u, provided_imr, TRUE))

put(ctx, u, provided_imr) ==
    AtomicEnd(_create_or_replace_rsrc(AtomicBegin(ctx), u, provided_imr, FALSE))

delete(ctx, u, inbound_arg, delete_children, leave_tstone) ==
    LET inbound == IF refint # "off" THEN TRUE ELSE inbound_arg
        Remove(c0) ==
            IF leave_tstone THEN _bury_rsrc(c0, u, inbound, AnyTerm)
            ELSE _purge_rsrc(c0, u, inbound)
        Body(c0) ==
            ChildLoop(Remove(c0),
                      IF delete_children
                        THEN ContainsPlus(c0.imr, {Res(u)}, {}) ELSE {},
                      u, inbound, leave_tstone)
    IN  AtomicEnd(Body(IF delete_children THEN LoadImr(AtomicBegin(ctx), u)
                       ELSE AtomicBegin(ctx)))

\* laz_gr[: RDF.type :] yields (subject, object) pairs, and a type IRI is
\* not one of them
InSubjectObjects(term, gr, p) ==
    \E x \in { <<t[1], t[3]>> : t \in { y \in gr : y[2] = p } } :
        Len(x) = Len(term) /\ x = term

resurrect(ctx, u) ==
    LET \* ?latest fcrepo:hasVersionLabel ?uid ; fcrepo:created ?ts
        Rows(vi) ==
            { <<z[1][3], z[2][3]>> : z \in
                  { y \in vi \X vi : /\ y[1][1] = y[2][1]
                                     /\ y[1][2] = "fcrepo:hasVersionLabel"
                                     /\ y[2][2] = "fcrepo:created" } }
        \* ORDER BY DESC(?ts) LIMIT 1
        ver_uid(rows) == (CHOOSE x \in rows : \A y \in rows : y[2][4] <= x[2][4])[1][3]
        Typed(laz_gr) ==
            laz_gr \cup
            (IF InSubjectObjects(Iri("ldp:NonRdfSource"), laz_gr, RdfType)
               THEN { <<Res(u), RdfType, Iri("fcrepo:Binary")>> }
             ELSE IF InSubjectObjects(Iri("ldp:Container"), laz_gr, RdfType)
               THEN { <<Res(u), RdfType, Iri("fcrepo:Container")>> }
             ELSE {})
        Lazarus(ver_trp) ==
            Typed({ <<Res(u), t[2], t[3]>> : t \in { x \in ver_trp :
                        ~(x[2] = RdfType /\ x[3] = Iri("fcrepo:Version")) } }
                  \cup { <<Res(u), RdfType, Iri("fcrepo:Resource")>> })
        Revive(b, r, rows) ==
            IF r.err # "ok" THEN Raise(b, r.err)
            ELSE IF rows = {} THEN Raise(b, "IndexError")
            ELSE _modify_rsrc(b, u, RES_CREATED, r.gr,
                              Lazarus(get_version(b.ws, u, ver_uid(rows))),
                              TRUE, FALSE)
        Body(b) ==
            _set_containment_rel(
                Revive(b, extract_imr(b.ws, u, FALSE, FALSE, TRUE),
                       Rows(get_version_info(b.ws, u))),
                u, {}, FALSE)
    IN  AtomicEnd(Body(AtomicBegin(ctx)))

purge(ctx, u, inbound_arg) ==
    AtomicEnd(_purge_rsrc(AtomicBegin(ctx), u,
                          IF refint # "off" THEN TRUE ELSE inbound_arg))

\* uuid4() is called when the label is empty or in use
NeedsUuid(ctx, u, ver_uid) == ver_uid = "" \/ ver_uid \in version_uids(ctx.ws, u)

create_version(ctx, u, ver_uid) ==
    LET Body(b) ==
            IF NeedsUuid(b, u, ver_uid)
              THEN _create_rsrc_version([b EXCEPT !.uu = @ + 1], u, uuid4(b.uu))
            ELSE _create_rsrc_version(b, u, ver_uid)
    IN  AtomicEnd(Body(AtomicBegin(ctx)))

revert_to_version(ctx, u, ver_uid, backup) ==
    LET \* self.create_version(uuid4()): the decorated method
        Backup(b) ==
            IF backup /\ ~Fails(b)
              THEN create_version([b EXCEPT !.uu = @ + 1], u, uuid4(b.uu))
            ELSE b
        Revert(c1) ==
            _create_or_replace_rsrc(c1, u,
                { <<Res(u), t[2], t[3]>> : t \in { x \in get_version(c1.ws, u, ver_uid) :
                      /\ x[2] \notin srv_mgd_predicates
                      /\ ~(x[2] = RdfType /\ x[3] \in srv_mgd_types) } },
                FALSE)
    IN  AtomicEnd(Revert(Backup(AtomicBegin(ctx))))

----------------------------------------------------------------------------
(* Requests.                                                               *)

\* the RDF payloads a client sends for resource u
Payloads(u) ==
    { { <<Res(u), "ex:p", Lit("1")>> },
      { <<Res(u), "ex:p", Lit("2")>>, <<Res(u), RdfType, Iri("ldp:Container")>>,
        <<Frag(u), "ex:p", Lit("1")>> },
      { <<Res(u), "ex:ref", Res(<<"a">>)>> },
      { <<Res(u), "ex:ref", Uri(<<"a">>)>> },
      { <<Ghost, "ex:p", Lit("1")>> } }

\* the arguments of a request, one shape for all operations
Args(payload, label, inbound, children, tstone, backup) ==
    [ payload |-> payload, label |-> label, inbound |-> inbound,
      children |-> children, tstone |-> tstone, backup |-> backup ]

NoArgs == Args({}, "", TRUE, TRUE, TRUE, TRUE)

\* what a request did: the operation and its arguments, the exception that
\* reached the caller ("ok" for none), the store before the request, the
\* commits, rollbacks and events in order, and request.changelog at the end
Outcome(op, u, args, ctx) ==
    [ op |-> op, uid |-> u, args |-> args, err |-> ctx.err, pre |-> ctx.pre,
      tr |-> ctx.tr, cl |-> ctx.cl ]

\* the request context of the next request
Request(failAt) == NewCtx(store, failAt, uuids, clock + 1)

\* the request is over: what is committed is what the store holds
Done(op, u, args, ctx) ==
    /\ ctx.uu <= MaxUuid
    /\ store' = ctx.cs
    /\ clock' = clock + 1
    /\ uuids' = ctx.uu
    /\ errors' = IF Fails(ctx) THEN errors + 1 ELSE errors
    /\ last' = Outcome(op, u, args, ctx)
    /\ UNCHANGED <<refint, messaging, requests>>

\* the two requests that may run at the same time
Reqs == { 1, 2 }

\* a request not started: pc is its position, ts its g.timestamp, create
\* the value of "create" in _create_or_replace_rsrc, rem and add the quads
\* its transaction removes and adds, cl its request.changelog
NoRequest ==
    [ pc |-> "idle", ts |-> 0, create |-> FALSE, rem |-> {}, add |-> {},
      cl |-> << >>, err |-> "ok" ]

\* the configurations: referential_integrity and messaging
Configs ==
    { <<"off", TRUE>>, <<"lenient", TRUE>>, <<"strict", TRUE>>, <<"off", FALSE>> }

\* the inbound argument counts only when referential integrity is off
Inbounds == IF refint # "off" THEN { TRUE } ELSE BOOLEAN

\* another request is served
Open == clock < MaxOps /\ errors < MaxErrors

Init ==
    /\ store = bootstrap
    /\ clock = 0
    /\ uuids = 0
    /\ errors = 0
    /\ \E c \in Configs : refint = c[1] /\ messaging = c[2]
    /\ last = [ op |-> "none", uid |-> RootUid, args |-> NoArgs, err |-> "ok",
                pre |-> bootstrap, tr |-> << >>, cl |-> << >> ]
    /\ requests = [ r \in Reqs |-> NoRequest ]

Post ==
    \E u \in Uids, f \in 0..MaxFail :
      \E payload \in Payloads(u) :
        /\ Open
        /\ Done("post", u, Args(payload, "", TRUE, TRUE, TRUE, TRUE),
                post(Request(f), u, payload))

Put ==
    \E u \in Uids, f \in 0..MaxFail :
      \E payload \in Payloads(u) :
        /\ Open
        /\ Done("put", u, Args(payload, "", TRUE, TRUE, TRUE, TRUE),
                put(Request(f), u, payload))

Delete ==
    \E u \in Uids, f \in 0..MaxFail, inbound \in Inbounds,
       children, tstone \in BOOLEAN :
        /\ Open
        /\ Done("delete", u, Args({}, "", inbound, children, tstone, TRUE),
                delete(Request(f), u, inbound, children, tstone))

Resurrect ==
    \E u \in Uids, f \in 0..MaxFail :
        /\ Open
        /\ Done("resurrect", u, NoArgs, resurrect(Request(f), u))

Purge ==
    \E u \in Uids, f \in 0..MaxFail, inbound \in Inbounds :
        /\ Open
        /\ Done("purge", u, Args({}, "", inbound, TRUE, TRUE, TRUE),
                purge(Request(f), u, inbound))

CreateVersion ==
    \E u \in Uids, f \in 0..MaxFail, label \in UserLabels :
        /\ Open
        /\ Done("create_version", u, Args({}, label, TRUE, TRUE, TRUE, TRUE),
                create_version(Request(f), u, label))

RevertToVersion ==
    \E u \in Uids, f \in 0..MaxFail, backup \in BOOLEAN :
      \E label \in version_uids(store, u) \cup { "v1" } :
        /\ Open
        /\ Done("revert_to_version", u, Args({}, label, TRUE, TRUE, TRUE, backup),
                revert_to_version(Request(f), u, label, backup))

\* the layout's purge_rsrc called on the store
PurgeRsrc ==
    /\ Open
    /\ \E u \in Uids, inbound \in BOOLEAN, resume \in BOOLEAN :
         LET Call(r) ==
                 Done("purge_rsrc", u, Args({}, "", inbound, TRUE, TRUE, TRUE),
                      [Request(0) EXCEPT !.cs = r.st, !.ws = r.st, !.err = r.err])
         IN  Call(purge_rsrc(store, u, inbound, resume))

Next ==
    \/ Post
    \/ Put
    \/ Delete
    \/ Resurrect
    \/ Purge
    \/ CreateVersion
    \/ RevertToVersion
    \/ PurgeRsrc

Spec == Init /\ [][Next]_vars


----------------------------------------------------------------------------
(* Runs without store faults and with one payload: deeper hierarchies.     *)

\* the payloads of these runs: one plain, one with a fragment
PayloadsNoFault(u) ==
    { { <<Res(u), "ex:p", Lit("1")>> },
      { <<Res(u), "ex:p", Lit("2")>>, <<Frag(u), "ex:p", Lit("1")>> } }

OpenNoFault == clock < MaxOpsNoFault /\ errors < MaxErrors

PutNoFault ==
    \E u \in Uids :
      \E payload \in PayloadsNoFault(u) :
        /\ OpenNoFault
        /\ Done("put", u, Args(payload, "", TRUE, TRUE, TRUE, TRUE),
                put(Request(0), u, payload))

DeleteNoFault ==
    \E u \in Uids, children \in BOOLEAN :
        /\ OpenNoFault
        /\ Done("delete", u, Args({}, "", TRUE, children, TRUE, TRUE),
                delete(Request(0), u, TRUE, children, TRUE))

ResurrectNoFault ==
    \E u \in Uids :
        /\ OpenNoFault
        /\ Done("resurrect", u, NoArgs, resurrect(Request(0), u))

NextNoFault ==
    \/ PutNoFault
    \/ DeleteNoFault
    \/ ResurrectNoFault

SpecNoFault == Init /\ [][NextNoFault]_vars


----------------------------------------------------------------------------
(* Runs without store faults on two resources: replacements and versions.  *)

MaxOpsVers == 4

UidsVers == { <<"a">>, <<"a", "b">> }

\* the payloads of these runs: one plain, one with a type of the client
PayloadsVers(u) ==
    { { <<Res(u), "ex:p", Lit("1")>> },
      { <<Res(u), "ex:p", Lit("2")>>, <<Res(u), RdfType, Iri("ldp:Container")>> } }

OpenVers == clock < MaxOpsVers /\ errors < MaxErrors

PostVers ==
    \E u \in UidsVers :
        /\ OpenVers
        /\ Done("post", u,
                Args({ <<Res(u), "ex:p", Lit("1")>> }, "", TRUE, TRUE, TRUE, TRUE),
                post(Request(0), u, { <<Res(u), "ex:p", Lit("1")>> }))

PutVers ==
    \E u \in UidsVers :
      \E payload \in PayloadsVers(u) :
        /\ OpenVers
        /\ Done("put", u, Args(payload, "", TRUE, TRUE, TRUE, TRUE),
                put(Request(0), u, payload))

CreateVersionVers ==
    \E u \in UidsVers, label \in UserLabels :
        /\ OpenVers
        /\ Done("create_version", u, Args({}, label, TRUE, TRUE, TRUE, TRUE),
                create_version(Request(0), u, label))

\* a revert to a stored version, with no backup
RevertToVersionVers ==
    \E u \in UidsVers :
      \E label \in version_uids(store, u) :
        /\ OpenVers
        /\ Done("revert_to_version", u, Args({}, label, TRUE, TRUE, TRUE, FALSE),
                revert_to_version(Request(0), u, label, FALSE))

ResurrectVers ==
    \E u \in UidsVers :
        /\ OpenVers
        /\ Done("resurrect", u, NoArgs, resurrect(Request(0), u))

\* the layout's purge of a resource that may have versions, inbound
\* references left alone
PurgeRsrcVers ==
    \E u \in UidsVers :
        LET Call(r) ==
                Done("purge_rsrc", u, Args({}, "", FALSE, TRUE, TRUE, TRUE),
                     [Request(0) EXCEPT !.cs = r.st, !.ws = r.st, !.err = r.err])
        IN  OpenVers /\ Call(purge_rsrc(store, u, FALSE, TRUE))

\* a delete that leaves a tombstone
DeleteVers ==
    \E u \in UidsVers :
        /\ OpenVers
        /\ Done("delete", u, Args({}, "", TRUE, TRUE, TRUE, TRUE),
                delete(Request(0), u, TRUE, TRUE, TRUE))

NextVers ==
    \/ PostVers
    \/ PutVers
    \/ CreateVersionVers
    \/ RevertToVersionVers
    \/ ResurrectVers
    \/ PurgeRsrcVers
    \/ DeleteVers

SpecVers == Init /\ [][NextVers]_vars

----------------------------------------------------------------------------
(* Runs in which the sending of an event message may raise.                *)

MaxOpsEvents == 2

MaxEvFail == 3

OpenEvents == clock < MaxOpsEvents

\* the request context of a request whose ev-th message fails to be sent
RequestEvents(ev) == [Request(0) EXCEPT !.evfail = ev]

PutEvents ==
    \E u \in Uids, ev \in 0..MaxEvFail :
      \E payload \in PayloadsNoFault(u) :
        /\ OpenEvents
        /\ Done("put", u, Args(payload, "", TRUE, TRUE, TRUE, TRUE),
                put(RequestEvents(ev), u, payload))

DeleteEvents ==
    \E u \in Uids, ev \in 0..MaxEvFail, tstone \in BOOLEAN :
        /\ OpenEvents
        /\ Done("delete", u, Args({}, "", TRUE, TRUE, tstone, TRUE),
                delete(RequestEvents(ev), u, TRUE, TRUE, tstone))

NextEvents ==
    \/ PutEvents
    \/ DeleteEvents

SpecEvents == Init /\ [][NextEvents]_vars

----------------------------------------------------------------------------
(* Reading the store.                                                      *)

\* the triples of the current graphs of u
OwnGraphs(st, u) ==
    GraphOf(st, _admin_uri(u, "")) \cup GraphOf(st, _main_uri(u, ""))
        \cup GraphOf(st, _struct_uri(u, ""))

\* live: urn rdf:type fcrepo:Resource in the admin graph
Live(st, u) == ask_rsrc_exists(st, u)

\* tombstoned: the two marks extract_imr looks for
Tombstoned(st, u) ==
    \/ <<Res(u), RdfType, Iri("fcsystem:Tombstone")>> \in OwnGraphs(st, u)
    \/ \E t \in OwnGraphs(st, u) : t[1] = Res(u) /\ t[2] = "fcsystem:tombstone"

\* the triples of u in the vocabulary of the clients
UserTriples(st, u) == { t \in OwnGraphs(st, u) : t[2] \in { "ex:p", "ex:ref" } }

\* the pairs <<P, R>> with <P> ldp:contains <R> in a current graph
Contains(st) ==
    { <<q[2], q[4]>> : q \in { x \in st : x[3] = "ldp:contains" /\ x[1][3] = "" } }

Parents(st, urn) == { c[1] : c \in { x \in Contains(st) : x[2] = urn } }

\* the parent links lead from urn to the root in at most k steps
RECURSIVE ReachesRoot(_, _, _)
ReachesRoot(st, urn, k) ==
    \/ urn = ROOT_NODE_URN
    \/ k > 0 /\ \E p \in Parents(st, urn) : ReachesRoot(st, p, k - 1)

\* everything below the frontier in the ldp:contains hierarchy of the store
RECURSIVE Descendants(_, _, _)
Descendants(st, frontier, seen) ==
    LET Step(nxt) == IF nxt = {} THEN seen
                     ELSE Descendants(st, nxt, seen \cup nxt)
    IN  Step({ c[2] : c \in { x \in Contains(st) : x[1] \in frontier } } \ seen)

IsEvent(item) == item.k = "event"

IsCommit(item) == item.k = "commit"

----------------------------------------------------------------------------
(* Transactions.                                                           *)

\* C1: if any step of a public operation raises, the store equals its
\* contents before the operation and no event is emitted.
C1_RollbackOnError ==
    last.err # "ok" =>
        /\ store = last.pre
        /\ \A i \in 1..Len(last.tr) : ~IsEvent(last.tr[i])

\* C2: revert_to_version with backup commits exactly once, at the end, and
\* when it fails nothing of it persists, the backup version included.
C2_RevertAllOrNothing ==
    (last.op = "revert_to_version" /\ last.args.backup) =>
        /\ Len(SelectSeq(last.tr, IsCommit)) <= 1
        /\ last.err # "ok" => store = last.pre

\* C3: within one operation every event comes after every commit and
\* rollback of the operation, an event is never sent without a commit before
\* it, and the events of a committed operation are those of its changelog
\* entries in the order the entries were appended.
C3_EventsAfterCommit ==
    /\ \A i, j \in 1..Len(last.tr) :
          (IsEvent(last.tr[i]) /\ ~IsEvent(last.tr[j])) => j < i
    /\ \A i \in 1..Len(last.tr) :
          IsEvent(last.tr[i]) => \E j \in 1..(i - 1) : IsCommit(last.tr[j])
    /\ last.err = "ok" =>
          SelectSeq(last.tr, IsEvent)
            = [i \in 1..Len(last.cl) |-> _send_event_msg(last.cl[i])]

\* a committed operation with two different changelog entries
C3_Witness ==
    /\ last.err = "ok"
    /\ Len(last.cl) >= 2
    /\ last.cl[1] # last.cl[2]
    /\ Len(SelectSeq(last.tr, IsEvent)) = Len(last.cl)

----------------------------------------------------------------------------
(* Life cycle.                                                             *)

\* C4: no uid is both live and tombstoned.
C4_ExclusiveStates ==
    \A u \in Uids : ~(Live(store, u) /\ Tombstoned(store, u))

\* C5: after a committed delete that leaves a tombstone, main and struct of
\* the uid are empty and admin holds exactly the two tombstone markers.
C5_TombstoneOnly ==
    (last.op = "delete" /\ last.args.tstone /\ last.err = "ok") =>
        /\ GraphOf(store, _main_uri(last.uid, "")) = {}
        /\ GraphOf(store, _struct_uri(last.uid, "")) = {}
        /\ GraphOf(store, _admin_uri(last.uid, ""))
             = { <<Res(last.uid), RdfType, Iri("fcsystem:Tombstone")>>,
                 <<Res(last.uid), "fcrepo:created", Ts(clock)>> }

\* C6: a committed delete of a live resource with delete_children that
\* leaves tombstones marks the resource as a tombstone and leaves, on every
\* descendant at any depth, a pointer to it; no descendant stays live.
C6_DescendantsBuried ==
    ( /\ last.op = "delete" /\ last.err = "ok"
      /\ last.args.children /\ last.args.tstone
      /\ Live(last.pre, last.uid) ) =>
        /\ <<Res(last.uid), RdfType, Iri("fcsystem:Tombstone")>>
              \in OwnGraphs(store, last.uid)
        /\ \A d \in Descendants(last.pre, {Res(last.uid)}, {}) :
              /\ <<d, "fcsystem:tombstone", Res(last.uid)>>
                    \in OwnGraphs(store, uri_to_uuid(d))
              /\ ~Live(store, uri_to_uuid(d))

\* C7: a strict read of a tombstoned uid raises TombstoneError, the read
\* that is not strict returns the stored graph, and a strict read of a uid
\* without triples raises ResourceNotExistsError.
C7_StrictRead ==
    \A u \in Uids :
        /\ Tombstoned(store, u) =>
              /\ extract_imr(store, u, TRUE, FALSE, TRUE).err = "TombstoneError"
              /\ extract_imr(store, u, FALSE, FALSE, TRUE)
                    = Imr("ok", OwnGraphs(store, u))
        /\ OwnGraphs(store, u) = {} =>
              extract_imr(store, u, TRUE, FALSE, TRUE).err
                    = "ResourceNotExistsError"

\* C8: resurrect after a committed delete of a live resource that left a
\* tombstone succeeds, the resource is live and not tombstoned, and its user
\* triples are those it had before the delete.
C8_RoundTrip ==
    ( /\ last.op = "delete" /\ last.err = "ok" /\ last.args.tstone
      /\ Live(last.pre, last.uid) ) =>
        LET Restored(r) ==
                /\ r.err = "ok"
                /\ Live(r.cs, last.uid)
                /\ ~Tombstoned(r.cs, last.uid)
                /\ UserTriples(r.cs, last.uid) = UserTriples(last.pre, last.uid)
        IN  Restored(resurrect(Request(0), last.uid))

----------------------------------------------------------------------------
(* Containment.                                                            *)

\* every live resource has one ldp:contains parent and a chain to the root
SingleParent(st) ==
    \A u \in Uids :
        Live(st, u) => /\ Cardinality(Parents(st, Res(u))) = 1
                       /\ ReachesRoot(st, Res(u), Cardinality(AllUids))

\* C9: a committed create keeps it true that every live resource other than
\* the root has exactly one ldp:contains parent and a chain of parents to
\* the root.
C9_SingleParent ==
    ( /\ last.op \in { "put", "post" } /\ last.err = "ok"
      /\ SingleParent(last.pre) ) => SingleParent(store)

\* a/b/c was created while no resource but the root was extant
CreatedBelowMissingSegments ==
    /\ last.op \in { "put", "post" } /\ last.err = "ok"
    /\ last.uid = <<"a", "b", "c">>
    /\ \A u \in Uids : ~ask_rsrc_exists(last.pre, u)

----------------------------------------------------------------------------
(* Purge.                                                                  *)

\* C11: a committed purge leaves the changelog empty and emits no event.
C11_PurgeSilent ==
    (last.op = "purge" /\ last.err = "ok") =>
        /\ last.cl = << >>
        /\ \A i \in 1..Len(last.tr) : ~IsEvent(last.tr[i])


\* the graphs META_GR registers with foaf:primaryTopic fcres:uid
Registered(st, u) ==
    { q[2] : q \in { x \in st : /\ x[1] = META_GR_URI
                                /\ x[3] = "foaf:primaryTopic"
                                /\ x[4] = Res(u) } }

\* what is stored of the versions of u
VersionQuads(st, u) ==
    { q \in st : \/ q[1][2] = u /\ q[1][3] # ""
                 \/ q[2][1] = "ver" /\ q[2][2] = u
                 \/ q[4][1] = "ver" /\ q[4][2] = u }

\* purge did to the store what is said of it: the graphs registered for u
\* are gone with their META_GR and HIST_GR entries, the graphs registered
\* for another resource lost at most the triples whose object is the urn
\* (when inbound), u is absent and nothing of its versions is left
Purged(pre, st, u, inbound) ==
    /\ \A g \in Registered(pre, u) :
          /\ GraphOf(st, g) = {}
          /\ \A q \in st : q[1] \in { META_GR_URI, HIST_GR_URI } => q[2] # g
    /\ \A v \in AllUids \ {u} : \A g \in Registered(pre, v) \ Registered(pre, u) :
          /\ GraphOf(st, g) \subseteq GraphOf(pre, g)
          /\ \A t \in GraphOf(pre, g) \ GraphOf(st, g) : inbound /\ t[3] = Res(u)
    /\ ~ask_rsrc_exists(st, u)
    /\ extract_imr(st, u, TRUE, FALSE, TRUE).err = "ResourceNotExistsError"
    /\ VersionQuads(st, u) = {}

\* C12: after a purge of uid every graph registered for it is gone with its
\* META_GR and HIST_GR entries, no other resource's graph changed but for
\* inbound references, uid is absent and none of its versions remain.
C12_PurgeFrame ==
    (last.op = "purge_rsrc" /\ last.err = "ok") =>
        Purged(last.pre, store, last.uid, last.args.inbound)



----------------------------------------------------------------------------
(* Create and replace.                                                     *)

\* a subject that is neither the urn of u nor a hash fragment of it
Foreign(payload, u) ==
    { s \in Subjects(payload) :
        (IF IsFragment(s) THEN FragmentBase(s) ELSE s) # Res(u) }

IsCreateOrReplace == last.op \in { "post", "put" }

\* C13: a post or put whose payload has a subject other than the urn or a
\* hash fragment of it fails with SingleSubjectError and leaves the store as
\* it was; any other payload passes that check, and when the request commits,
\* <fragment> fcsystem:fragmentOf <urn> is stored in the graphs of the
\* resource for each fragment subject.
C13_SingleSubject ==
    IsCreateOrReplace =>
        IF Foreign(last.args.payload, last.uid) # {}
          THEN last.err = "SingleSubjectError" /\ store = last.pre
        ELSE /\ last.err # "SingleSubjectError"
             /\ last.err = "ok" =>
                  \A f \in { s \in Subjects(last.args.payload) : IsFragment(s) } :
                      <<f, "fcsystem:fragmentOf", Res(last.uid)>>
                          \in OwnGraphs(store, last.uid)

\* a put with a foreign subject was rejected on a resource that is stored
C13_Witness ==
    /\ last.op = "put"
    /\ Foreign(last.args.payload, last.uid) # {}
    /\ last.err = "SingleSubjectError"
    /\ Live(last.pre, last.uid)


\* an object in the repository namespace, as URN or as URI under the webroot,
\* that names another resource than u and no resource that st holds
Unresolved(st, o, u) ==
    /\ o[1] \in { "res", "uri" }
    /\ o[2] # u
    /\ ~ask_rsrc_exists(st, o[2])

\* C14: under strict referential integrity a post or put whose payload passes
\* the subject check and has an object of the repository that resolves to no
\* extant resource fails with RefIntViolationError: the store is as before,
\* nothing is committed and no event is sent.
C14_StrictRefInt ==
    ( /\ IsCreateOrReplace
      /\ refint = "strict"
      /\ Foreign(last.args.payload, last.uid) = {}
      /\ \E t \in last.args.payload : Unresolved(last.pre, t[3], last.uid) )
    => /\ last.err = "RefIntViolationError"
       /\ store = last.pre
       /\ \A i \in 1..Len(last.tr) : ~IsCommit(last.tr[i]) /\ ~IsEvent(last.tr[i])


\* the objects of predicate p on the urn of u
Values(gr, u, p) == { t[3] : t \in { x \in gr : x[1] = Res(u) /\ x[2] = p } }

\* the triples of a graph that only a client writes: its own predicates and
\* the types that are not the base types
ClientTriples(gr) ==
    { t \in gr : \/ t[2] \in { "ex:p", "ex:ref" }
                 \/ t[2] = RdfType /\ t[3] \notin base_types }

\* the provided triples that lenient referential integrity lets through
Kept(payload) ==
    IF refint = "lenient" THEN { t \in payload : t[3][1] # "uri" } ELSE payload

\* what the resource reads as: the provided graph G and the server managed
\* triples computed for it at time now, and no other triple of a client
ReadsAs(imr, G, u, now) ==
    /\ imr.err = "ok"
    /\ Kept(G) \subseteq imr.gr
    /\ ClientTriples(imr.gr) \subseteq Kept(G)
    /\ Values(imr.gr, u, RdfType) \ Values(G, u, RdfType) = base_types
    /\ Cardinality(Values(imr.gr, u, "fcrepo:created")) = 1
    /\ Values(imr.gr, u, "fcrepo:createdBy") = { DEFAULT_USER }
    /\ Values(imr.gr, u, "fcrepo:lastModified") = { Ts(now) }
    /\ Values(imr.gr, u, "fcrepo:lastModifiedBy") = { DEFAULT_USER }
    /\ Values(imr.gr, u, "premis:hasMessageDigest")
         = { rdf_cksum(G \cup { <<Res(u), RdfType, t>> : t \in base_types }) }

\* C15: after a committed post or put of graph G the strict read of the uid
\* gives G with the base types, one creation time and creator, the time of
\* this request as last modification, and the digest computed for G, and no
\* client triple or type left from the earlier state of the uid.
C15_ExactContent ==
    (IsCreateOrReplace /\ last.err = "ok") =>
        ReadsAs(extract_imr(store, last.uid, TRUE, FALSE, TRUE),
                last.args.payload, last.uid, clock)


\* the ldp:contains statements of u with the children of u
ChildLinks(st, u) ==
    { t \in OwnGraphs(st, u) : t[1] = Res(u) /\ t[2] = "ldp:contains" }

\* what a replace must not touch
Protected(st, u) ==
    << Values(OwnGraphs(st, u), u, "fcrepo:created"),
       Values(OwnGraphs(st, u), u, "fcrepo:createdBy"),
       ChildLinks(st, u) >>

\* the event type the request returned: the one its first changelog entry
\* was appended with (_create_rsrc and _replace_rsrc return the constant they
\* hand to _modify_rsrc)
Returned == last.cl[1].ev_type

ReplacedStored ==
    last.op = "put" /\ last.err = "ok" /\ Live(last.pre, last.uid)

\* C16: a committed put on a stored uid leaves fcrepo:created,
\* fcrepo:createdBy and the ldp:contains links to the children as they were,
\* sets fcrepo:lastModified to the time of the request and returns UPDATED;
\* a committed post, or put on a uid that is not stored, returns CREATED.
C16_ReplaceKeepsProtected ==
    /\ ReplacedStored =>
          /\ Protected(store, last.uid) = Protected(last.pre, last.uid)
          /\ Values(OwnGraphs(store, last.uid), last.uid, "fcrepo:lastModified")
               = { Ts(clock) }
          /\ messaging => Returned = RES_UPDATED
    /\ (IsCreateOrReplace /\ last.err = "ok" /\ messaging /\ ~ReplacedStored)
          => Returned = RES_CREATED

\* a stored resource with a child was replaced
C16_Witness ==
    /\ ReplacedStored
    /\ messaging
    /\ ChildLinks(last.pre, last.uid) # {}


----------------------------------------------------------------------------
(* Events of versions and deletions.                                       *)

\* the request sent an event of type ev_type about the resource u
Notified(ev_type, u) ==
    \E i \in 1..Len(last.tr) :
        /\ IsEvent(last.tr[i])
        /\ last.tr[i].ev.ev_type = ev_type
        /\ Res(u) \in last.tr[i].subj

\* C18: a committed create_version with messaging enabled sends an UPDATED
\* event about the versioned resource and no event about the new version.
C18_VersionEvent ==
    (last.op = "create_version" /\ last.err = "ok" /\ messaging) =>
        /\ Notified(RES_UPDATED, last.uid)
        /\ \A i \in 1..Len(last.tr) :
              IsEvent(last.tr[i]) => \A x \in last.tr[i].subj : x[1] # "ver"

\* C19: every committed delete of a stored resource with messaging enabled
\* sends a DELETED event about the resource, with and without a tombstone.
C19_DeleteEvent ==
    ( /\ last.op = "delete" /\ last.err = "ok" /\ messaging
      /\ Live(last.pre, last.uid) ) =>
        Notified(RES_DELETED, last.uid)


----------------------------------------------------------------------------
(* Versions.                                                               *)

\* version l of u was created by the request before the last one
VersionJustCreated(u, l) ==
    <<Ver(u, l), "fcrepo:created", Ts(clock - 1)>> \in OwnGraphs(last.pre, u)

\* a graph without the modification time and the digest
Timeless(gr) ==
    { t \in gr : t[2] \notin { "fcrepo:lastModified", "premis:hasMessageDigest" } }

SameButTimes(before, after) ==
    /\ before.err = "ok"
    /\ after.err = "ok"
    /\ Timeless(before.gr) = Timeless(after.gr)

\* C17: after create_version(uid, v) on a stored resource and, as the next
\* request, a committed revert_to_version(uid, v, backup=false), the strict
\* read of the resource differs from the read before the revert in
\* fcrepo:lastModified and the digest at most: the triples of the client, the
\* ldp:contains links and the version links are the same.
C17_RevertIsIdentity ==
    ( /\ last.op = "revert_to_version" /\ last.err = "ok"
      /\ ~last.args.backup
      /\ Live(last.pre, last.uid)
      /\ VersionJustCreated(last.uid, last.args.label) )
    => SameButTimes(extract_imr(last.pre, last.uid, TRUE, FALSE, TRUE),
                    extract_imr(store, last.uid, TRUE, FALSE, TRUE))


----------------------------------------------------------------------------
(* Routing.                                                                *)

\* the three current graphs of u
CurrentGraphs(u) == { _admin_uri(u, ""), _struct_uri(u, ""), _main_uri(u, "") }

\* the current graphs of u that hold triple t
Holding(st, u, t) ==
    { g \in CurrentGraphs(u) : <<g, t[1], t[2], t[3]>> \in st }

\* the triples stored anywhere
StoredTriples(st) == { <<q[2], q[3], q[4]>> : q \in st }

\* what modify_rsrc adds to the store for one triple
AddedBy(st, u, t) == modify_rsrc(st, u, "", {}, { t }) \ st

\* C20: every triple is routed to exactly one of the three graphs of the
\* resource (by its predicate, else by its type when the predicate is
\* rdf:type, else to main), modify_rsrc adds a triple to that graph and to no
\* other, and no triple is stored in two of admin, struct and main of one
\* resource.
C20_OneGraphPerTriple ==
    /\ _map_graph_uri(<<Res(last.uid), "fcrepo:created", Ts(0)>>, last.uid, "")
          = _admin_uri(last.uid, "")
    /\ _map_graph_uri(<<Res(last.uid), "ldp:contains", Ghost>>, last.uid, "")
          = _struct_uri(last.uid, "")
    /\ _map_graph_uri(<<Res(last.uid), RdfType, Iri("ldp:Container")>>, last.uid, "")
          = _admin_uri(last.uid, "")
    /\ _map_graph_uri(<<Res(last.uid), RdfType, Iri("ex:Type")>>, last.uid, "")
          = _main_uri(last.uid, "")
    /\ _map_graph_uri(<<Res(last.uid), "ex:p", Iri("ldp:Container")>>, last.uid, "")
          = _main_uri(last.uid, "")
    /\ \A t \in StoredTriples(store) :
          /\ _map_graph_uri(t, last.uid, "") \in CurrentGraphs(last.uid)
          /\ AddedBy(store, last.uid, t)
               \subseteq { <<_map_graph_uri(t, last.uid, ""), t[1], t[2], t[3]>>,
                           <<META_GR_URI, _map_graph_uri(t, last.uid, ""),
                             "foaf:primaryTopic", Res(last.uid)>> }
    /\ \A u \in AllUids :
          \A t \in StoredTriples(store) : Cardinality(Holding(store, u, t)) <= 1


\* a committed request left a resource with triples in each of its graphs
C20_Witness ==
    /\ last.err = "ok"
    /\ last.op \in { "post", "put" }
    /\ \A g \in CurrentGraphs(last.uid) : GraphOf(store, g) # {}


----------------------------------------------------------------------------
(* Registration of the graphs.                                             *)

\* the graphs of resources: admin, struct and main, current or of a version
IsRsrcGraph(g) == g[1] \in { "admin", "struct", "main" }

\* graph g is registered in META_GR for the resource it belongs to
RegisteredInMeta(st, g) ==
    <<META_GR_URI, g, "foaf:primaryTopic", TopicOf(g[2], g[3])>> \in st

\* C21: every graph of a resource that holds a triple is registered in
\* META_GR with the urn of its resource as foaf:primaryTopic, so the admin
\* graph of every extant resource is registered; modify_rsrc registers the
\* graph it adds a triple to and registers nothing for a triple it removes.
C21_GraphsRegistered ==
    /\ \A q \in store : IsRsrcGraph(q[1]) => RegisteredInMeta(store, q[1])
    /\ \A u \in AllUids :
          ask_rsrc_exists(store, u) => RegisteredInMeta(store, _admin_uri(u, ""))
    /\ \A t \in StoredTriples(store) :
          /\ RegisteredInMeta(modify_rsrc({}, last.uid, "", {}, { t }),
                              _map_graph_uri(t, last.uid, ""))
          /\ modify_rsrc(store, last.uid, "", { t }, {}) \subseteq store

\* a committed request left an extant resource with a graph that the store
\* before it did not register
C21_Witness ==
    /\ last.err = "ok"
    /\ ask_rsrc_exists(store, last.uid)
    /\ \E g \in CurrentGraphs(last.uid) :
          /\ GraphOf(store, g) # {}
          /\ ~RegisteredInMeta(last.pre, g)


----------------------------------------------------------------------------
(* Resurrection.                                                           *)

\* C22: resurrect on a uid that carries no tombstone, live or absent, fails
\* and leaves the store as it was.
C22_ResurrectNeedsTombstone ==
    (last.op = "resurrect" /\ ~Tombstoned(last.pre, last.uid)) =>
        /\ last.err # "ok"
        /\ store = last.pre


----------------------------------------------------------------------------
(* Failures of the messaging.                                              *)

\* the request committed and the sending of one of its messages raised
EventFailed ==
    /\ \E i \in 1..Len(last.tr) : IsCommit(last.tr[i])
    /\ Len(SelectSeq(last.tr, IsEvent)) < Len(last.cl)

\* C23: when the sending of an event message fails after the commit, the
\* transaction stays committed, the operation does not fail for the caller,
\* and a message is still sent for every other changelog entry.
C23_EventFailureContained ==
    EventFailed =>
        /\ store # last.pre
        /\ last.err = "ok"
        /\ Len(SelectSeq(last.tr, IsEvent)) = Len(last.cl) - 1


----------------------------------------------------------------------------
(* Paths: creates and replaces of the root, a, a/b and a/b/c, and deletes  *)
(* that leave a tombstone.                                                 *)

MaxOpsPaths == 3

OpenPaths == clock < MaxOpsPaths /\ errors < MaxErrors

PutPaths ==
    \E u \in AllUids :
        /\ OpenPaths
        /\ Done("put", u,
                Args({ <<Res(u), "ex:p", Lit("1")>> }, "", TRUE, TRUE, TRUE, TRUE),
                put(Request(0), u, { <<Res(u), "ex:p", Lit("1")>> }))

DeletePaths ==
    \E u \in Uids, children \in BOOLEAN :
        /\ OpenPaths
        /\ Done("delete", u, Args({}, "", TRUE, children, TRUE, TRUE),
                delete(Request(0), u, TRUE, children, TRUE))

\* the layout's removal of the data of a resource, with or without backup
DeleteRsrcData ==
    \E u \in Uids, backup_uid \in { "", "bk" } :
        /\ OpenPaths
        /\ Done("delete_rsrc_data", u,
                Args({}, backup_uid, TRUE, TRUE, TRUE, TRUE),
                [Request(0) EXCEPT !.cs = delete_rsrc_data(store, u, backup_uid),
                                   !.ws = delete_rsrc_data(store, u, backup_uid)])

NextPaths == PutPaths \/ DeletePaths \/ DeleteRsrcData

SpecPaths == Init /\ [][NextPaths]_vars

----------------------------------------------------------------------------
(* Direct and indirect containers: requests on a and a/b whose payloads    *)
(* declare the membership statements of a container, and deletes.          *)

MaxOpsMembers == 3

UidsMembers == { <<"a">>, <<"a", "b">> }

\* a container that names the root as its membership resource
ContainerPayload(u, type, preds) ==
    { <<Res(u), RdfType, Iri(type)>> } \cup
    { t \in { <<Res(u), "ldp:membershipResource", ROOT_NODE_URN>>,
              <<Res(u), "ldp:hasMemberRelation", Iri("ex:member")>>,
              <<Res(u), "ldp:insertedContentRelation", Iri("ex:ref")>> } :
          t[2] \in preds }

PayloadsMembers(u) ==
    { { <<Res(u), "ex:p", Lit("1")>> },
      { <<Res(u), "ex:ref", Res(<<"a">>)>> },
      ContainerPayload(u, "ldp:DirectContainer",
                       { "ldp:membershipResource", "ldp:hasMemberRelation" }),
      ContainerPayload(u, "ldp:DirectContainer", { "ldp:membershipResource" }),
      ContainerPayload(u, "ldp:IndirectContainer",
                       { "ldp:membershipResource", "ldp:hasMemberRelation",
                         "ldp:insertedContentRelation" }),
      ContainerPayload(u, "ex:Thing",
                       { "ldp:membershipResource", "ldp:hasMemberRelation" }) }

OpenMembers == clock < MaxOpsMembers /\ errors < MaxErrors

PutMembers ==
    \E u \in UidsMembers :
      \E payload \in PayloadsMembers(u) :
        /\ OpenMembers
        /\ Done("put", u, Args(payload, "", TRUE, TRUE, TRUE, TRUE),
                put(Request(0), u, payload))

DeleteMembers ==
    \E u \in UidsMembers, inbound, children \in BOOLEAN :
        /\ OpenMembers
        /\ Done("delete", u, Args({}, "", inbound, children, TRUE, TRUE),
                delete(Request(0), u, inbound, children, TRUE))

NextMembers == PutMembers \/ DeleteMembers

SpecMembers == Init /\ [][NextMembers]_vars

\* ---------------------------------------------------------------------
\* URN/URI toolbox: the conversions between client-facing URIs and
\* internal URNs, applied to single terms.

MaxOpsToolbox == 3

\* <webroot>/<uid>/ : the trailing-slash spelling of a resource URI
UriSlash(u) == <<"uri", u, "", 2>>

\* the uid as a plain string, as the toolbox receives and returns it
UidStr(u) == <<"lit", u, "", 0>>

\* the terms handed to the toolbox
ToolboxTerms ==
    UNION { { Uri(u), UriSlash(u), Res(u), Frag(u), <<"uri", u, "", 1>> }
            : u \in AllUids }
      \cup { Iri("http://bogus.org/test/uid"), Lit("1") }

ToolboxCall(op, x, y) ==
    /\ clock < MaxOpsToolbox
    /\ clock' = clock + 1
    /\ last' = [ op |-> op, uid |-> RootUid,
                 args |-> Args({ <<x, op, y>> }, "", FALSE, FALSE, FALSE, FALSE),
                 err |-> "ok", pre |-> store, tr |-> << >>, cl |-> << >> ]
    /\ UNCHANGED <<store, uuids, refint, messaging, errors, requests>>

\* what the next call may be given: any term, or the previous result
ToolboxInputs ==
    ToolboxTerms \cup { t[3] : t \in last.args.payload }

Localize ==
    \E x \in ToolboxInputs : ToolboxCall("localize", x, localize_term(x))

Globalize ==
    \E x \in ToolboxInputs : ToolboxCall("globalize", x, globalize_term(x))

UuidToUri ==
    \E u \in AllUids : ToolboxCall("uuid_to_uri", UidStr(u), uuid_to_uri(u))

UriToUuid ==
    \E x \in { t \in ToolboxInputs : t[1] \in {"uri", "res"} } :
        ToolboxCall("uri_to_uuid", x, UidStr(uri_to_uuid(x)))

NextToolbox == Localize \/ Globalize \/ UuidToUri \/ UriToUuid

SpecToolbox == Init /\ [][NextToolbox]_vars

\* the call of the toolbox the state records
ToolboxCalls(op) ==
    IF last.op = op THEN last.args.payload ELSE {}

\* the same URI without its trailing slash
Unslashed(t) == IF t[1] = "uri" /\ t[4] = 2 THEN Uri(t[2]) ELSE t

UnderWebroot(t) == t[1] = "uri"

\* the round trips every spelling shares
RoundTripsCommon ==
    /\ \A c \in ToolboxCalls("uuid_to_uri") :
          /\ uri_to_uuid(c[3]) = c[1][2]
          /\ (c[1][2] = RootUid) <=> (c[3] = Uri(RootUid))
    /\ \A c \in ToolboxCalls("globalize") :
          IF c[1][1] = "res" THEN localize_term(c[3]) = c[1]
          ELSE c[3] = c[1]
    /\ \A c \in ToolboxCalls("localize") :
          ~UnderWebroot(c[1]) => c[3] = c[1]

----------------------------------------------------------------------------
(* Containment.                                                            *)

\* the proper path prefixes of u that are extant resources
ExtantPrefixes(st, u) ==
    { k \in 0..(Len(u) - 1) : k = 0 \/ ask_rsrc_exists(st, Prefix(u, k)) }

\* the parent the containment step has to find for u
DeepestExtant(st, u) ==
    Prefix(u, CHOOSE k \in ExtantPrefixes(st, u) :
                  \A j \in ExtantPrefixes(st, u) : j <= k)

\* the request committed a create or a replace of last.uid
CreatedOrReplaced ==
    /\ last.op \in { "post", "put" }
    /\ \E i \in 1..Len(last.tr) : IsCommit(last.tr[i])

\* C25: a committed create or replace of uid stores <parent> ldp:contains
\* <urn> with the parent and <urn> fcrepo:hasParent <parent> with uid, the
\* parent being the deepest proper path prefix of uid that is an extant
\* resource, the root when there is none (always for a uid without '/');
\* for the root itself neither statement is stored.
C25_DeepestExtantParent ==
    CreatedOrReplaced =>
        IF last.uid = RootUid
          THEN \A t \in StoredTriples(store) :
                  /\ ~(t[2] = "fcrepo:hasParent" /\ t[1] = ROOT_NODE_URN)
                  /\ ~(t[2] = "ldp:contains" /\ t[3] = ROOT_NODE_URN)
        ELSE LET Linked(parent) ==
                     /\ <<Res(parent), "ldp:contains", Res(last.uid)>>
                            \in OwnGraphs(store, parent)
                     /\ <<Res(last.uid), "fcrepo:hasParent", Res(parent)>>
                            \in OwnGraphs(store, last.uid)
             IN  Linked(DeepestExtant(last.pre, last.uid))

\* a/b/c was created while a and a/b were extant
C25_Witness ==
    /\ CreatedOrReplaced
    /\ Len(last.uid) = 3
    /\ ~ask_rsrc_exists(last.pre, last.uid)
    /\ ExtantPrefixes(last.pre, last.uid) = {0, 1, 2}
    /\ <<Res(Prefix(last.uid, 2)), "ldp:contains", Res(last.uid)>>
           \in OwnGraphs(store, Prefix(last.uid, 2))

\* the root was replaced and took part in no containment statement
RootReplaced ==
    /\ CreatedOrReplaced
    /\ last.uid = RootUid
    /\ store # last.pre


----------------------------------------------------------------------------
(* Versions.                                                               *)

\* everything stored about version l of u: its graphs and the statements
\* made of its urn
VersionContent(st, u, l) ==
    { q \in st : \/ q[1][2] = u /\ q[1][3] = l
                 \/ q[2][1] = "ver" /\ q[2][2] = u /\ q[2][3] = l }

\* the operations said to leave the versions alone
KeepsVersions ==
    \/ last.op \in { "post", "put", "create_version", "revert_to_version" }
    \/ last.op = "delete" /\ last.args.tstone

\* the labels of u the last request added
NewLabels(u) == version_uids(store, u) \ version_uids(last.pre, u)

\* C26: across create_version, put, revert_to_version and a delete that
\* leaves a tombstone the labels of the versions of a resource never lose a
\* member and what is stored of an existing version never changes; a
\* committed create_version with an empty or an already used label stores
\* the snapshot under a fresh label.
C26_VersionsAppendOnly ==
    KeepsVersions =>
        /\ \A u \in AllUids : \A l \in version_uids(last.pre, u) :
              /\ l \in version_uids(store, u)
              /\ VersionContent(store, u, l) = VersionContent(last.pre, u, l)
        /\ (last.op = "create_version" /\ last.err = "ok"
              /\ (last.args.label = ""
                    \/ last.args.label \in version_uids(last.pre, last.uid)))
             => \E l \in NewLabels(last.uid) : l # ""


\* the triples create_version leaves out of a snapshot
SnapshotSkips(t) ==
    \/ t[2] = RdfType /\ t[3] \in { Iri("fcrepo:Binary"), Iri("fcrepo:Container"),
                                    Iri("fcrepo:Resource") }
    \/ t[2] \in { "fcrepo:hasParent", "fcrepo:hasVersions",
                  "premis:hasMessageDigest" }

\* what the graphs of version l of u hold
SnapshotOf(st, u, l) ==
    GraphOf(st, _admin_uri(u, l)) \cup GraphOf(st, _main_uri(u, l))
        \cup GraphOf(st, _struct_uri(u, l))

\* a create_version committed and stored a snapshot of last.uid
VersionCreated ==
    /\ last.op = "create_version"
    /\ last.err = "ok"
    /\ NewLabels(last.uid) # {}

\* C27: the snapshot create_version stores is every triple of the current
\* resource, its subject moved from the urn to the version urn, but for the
\* rdf:type statements of fcrepo:Binary, fcrepo:Container, fcrepo:Resource
\* and the predicates fcrepo:hasParent, fcrepo:hasVersions,
\* premis:hasMessageDigest; with it are stored <ver_urn> rdf:type
\* fcrepo:Version, <ver_urn> fcrepo:created ts and <ver_urn>
\* fcrepo:hasVersionLabel ver_uid.
C27_SnapshotContent ==
    VersionCreated =>
        \A l \in NewLabels(last.uid) :
            /\ SnapshotOf(store, last.uid, l) =
                  { <<replace_term_domain(t[1], last.uid, l), t[2], t[3]>> :
                        t \in { x \in OwnGraphs(last.pre, last.uid) :
                                    ~SnapshotSkips(x) } }
                    \cup { <<Ver(last.uid, l), RdfType, Iri("fcrepo:Version")>> }
            /\ <<Ver(last.uid, l), "fcrepo:hasVersionLabel", Lit(l)>>
                  \in StoredTriples(store)
            /\ \E n \in 0..MaxOpsVers :
                  <<Ver(last.uid, l), "fcrepo:created", Ts(n)>>
                      \in StoredTriples(store) \ StoredTriples(last.pre)

\* a snapshot was taken of a resource that has a parent statement and a
\* user triple: the first is left out, the second copied
C27_Witness ==
    /\ VersionCreated
    /\ \E t \in OwnGraphs(last.pre, last.uid) : t[2] = "fcrepo:hasParent"
    /\ \E l \in NewLabels(last.uid) :
          <<Ver(last.uid, l), "ex:p", Lit("1")>> \in SnapshotOf(store, last.uid, l)


----------------------------------------------------------------------------
(* Inbound references.                                                     *)

\* the triples a live resource other than u holds that point to the urn of
\* u, the containment statements of its ancestors and children aside
InboundLeft(st, u) ==
    UNION { { t \in OwnGraphs(st, v) :
                /\ t[3] = Res(u)
                /\ t[2] \notin { "ldp:contains", "fcrepo:contains",
                                  "fcrepo:hasParent" } }
            : v \in { w \in AllUids \ {u} : Live(st, w) } }

\* C28: after a committed delete of uid that leaves a tombstone, with
\* inbound set or forced by referential integrity, no live resource other
\* than uid holds a triple whose object is the deleted urn.
C28_NoInboundLeft ==
    ( /\ last.op = "delete"
      /\ last.err = "ok"
      /\ last.args.tstone
      /\ last.args.inbound \/ refint # "off"
      /\ Live(last.pre, last.uid) )
        => InboundLeft(store, last.uid) = {}


----------------------------------------------------------------------------
(* Direct and indirect containers.                                         *)

\* what a read of the parent without its children gives
ParentImr(st, parent) ==
    GraphOf(st, _admin_uri(parent, "")) \cup GraphOf(st, _main_uri(parent, ""))

\* the objects of the statements <urn of u> p ?o in gr
ObjectsOf(gr, u, p) == { t[3] : t \in { x \in gr : x[1] = Res(u) /\ x[2] = p } }

HasType(gr, u, type) == Iri(type) \in ObjectsOf(gr, u, RdfType)

\* the last request was a put that created last.uid below root or below an
\* extant resource
CreatedBelow(parent) ==
    /\ last.op = "put"
    /\ last.uid # RootUid
    /\ ~ask_rsrc_exists(last.pre, last.uid)
    /\ parent = DeepestExtant(last.pre, last.uid)

\* the membership statements (s, p, o) the parent's declarations call for
MembersOf(gr, parent, o) ==
    { <<s, p[3], o>> : s \in ObjectsOf(gr, parent, "ldp:membershipResource"),
                       p \in ObjectsOf(gr, parent, "ldp:hasMemberRelation") }

\* the statements made with a membership predicate that the last request
\* added to the store
MembershipAdded ==
    { t \in StoredTriples(store) \ StoredTriples(last.pre) : t[2] = "ex:member" }

\* the parent declares a membership resource and a member relation
DeclaresMembers(gr, parent) == MembersOf(gr, parent, AnyTerm) # {}

\* C29: when a resource is created below a parent of type
\* ldp:DirectContainer that declares ldp:membershipResource s and
\* ldp:hasMemberRelation p, (s, p, urn) is added to the main graph of s;
\* when the parent lacks one of the two or is neither a direct nor an
\* indirect container, no membership statement is added.
C29_DirectContainerMember ==
    \A parent \in AllUids :
      (CreatedBelow(parent) /\ last.err = "ok") =>
        LET DC(gr) ==
                IF HasType(gr, parent, "ldp:DirectContainer")
                     /\ DeclaresMembers(gr, parent)
                  THEN \A m \in MembersOf(gr, parent, Res(last.uid)) :
                          m \in GraphOf(store, _main_uri(uri_to_uuid(m[1]), ""))
                ELSE ( \/ ~DeclaresMembers(gr, parent)
                       \/ /\ ~HasType(gr, parent, "ldp:DirectContainer")
                          /\ ~HasType(gr, parent, "ldp:IndirectContainer") )
                        => MembershipAdded = {}
        IN  DC(ParentImr(last.pre, parent))

\* a/b was created below the direct container a and the root was given
\* the member
C29_Witness ==
    /\ CreatedBelow(<<"a">>)
    /\ last.err = "ok"
    /\ HasType(ParentImr(last.pre, <<"a">>), <<"a">>, "ldp:DirectContainer")
    /\ <<ROOT_NODE_URN, "ex:member", Res(last.uid)>>
          \in GraphOf(store, _main_uri(RootUid, ""))

\* the parent is an indirect container with its three declarations
IndirectParent(gr, parent) ==
    /\ HasType(gr, parent, "ldp:IndirectContainer")
    /\ ~HasType(gr, parent, "ldp:DirectContainer")
    /\ DeclaresMembers(gr, parent)
    /\ ObjectsOf(gr, parent, "ldp:insertedContentRelation") # {}

\* the values the provided graph has for the inserted content relation
Targets(gr, parent) ==
    UNION { ObjectsOf(last.args.payload, last.uid, rel[3])
            : rel \in ObjectsOf(gr, parent, "ldp:insertedContentRelation") }

\* C30: a create below an ldp:IndirectContainer that declares s, p and
\* ldp:insertedContentRelation cont_rel adds (s, p, target) when the
\* provided graph has a value target for cont_rel; when it has none the
\* create still succeeds and commits, with no membership statement.
C30_IndirectContainerMember ==
    \A parent \in AllUids :
      (CreatedBelow(parent) /\ IndirectParent(ParentImr(last.pre, parent), parent)) =>
        LET IC(gr, targets) ==
                /\ last.err = "ok"
                /\ ask_rsrc_exists(store, last.uid)
                /\ IF targets = {} THEN MembershipAdded = {}
                   ELSE \E o \in targets :
                           MembersOf(gr, parent, o) \subseteq StoredTriples(store)
        IN  IC(ParentImr(last.pre, parent), Targets(ParentImr(last.pre, parent), parent))

\* a create below an indirect container gave the root the target of the
\* provided graph as a member
IndirectMemberAdded ==
    /\ CreatedBelow(<<"a">>)
    /\ IndirectParent(ParentImr(last.pre, <<"a">>), <<"a">>)
    /\ <<ROOT_NODE_URN, "ex:member", Res(<<"a">>)>>
          \in GraphOf(store, _main_uri(RootUid, ""))


----------------------------------------------------------------------------
(* Lenient referential integrity.                                          *)

\* C31: under lenient referential integrity a put whose provided graph has
\* objects of the repository that resolve to no extant resource succeeds,
\* and the stored resource holds every provided triple but those with such
\* an object: each of them is dropped and no other provided triple is.
C31_LenientDropsDangling ==
    ( /\ last.op = "put"
      /\ refint = "lenient"
      /\ Foreign(last.args.payload, last.uid) = {}
      /\ \E t \in last.args.payload : Unresolved(last.pre, t[3], last.uid) )
    => /\ last.err = "ok"
       /\ \A t \in last.args.payload :
             (t \in OwnGraphs(store, last.uid))
                <=> ~Unresolved(last.pre, t[3], last.uid)


----------------------------------------------------------------------------
(* Deltas: _dedup_deltas applied to the graph a stored for a resource and  *)
(* a graph b that is to replace it, and the result applied to the store.   *)

MaxOpsDeltas == 3

DeltaTriples ==
    { <<Res(<<"a">>), "ex:p", Lit("1")>>, <<Res(<<"a">>), "ex:p", Lit("2")>>,
      <<Res(<<"a">>), "ex:ref", Res(<<"a">>)>> }

DeltaGraph == _main_uri(<<"a">>, "")

\* delta = _dedup_deltas(a, b); the store loses delta[1] and gains delta[2]
ApplyDeltas(a, b, delta) ==
    /\ clock < MaxOpsDeltas
    /\ clock' = clock + 1
    /\ store' = (store \ QuadsOf(DeltaGraph, delta[1]))
                   \cup QuadsOf(DeltaGraph, delta[2])
    /\ last' = [ op |-> "_dedup_deltas", uid |-> <<"a">>,
                 args |-> Args(b, "", FALSE, FALSE, FALSE, FALSE),
                 err |-> "ok", pre |-> store, tr |-> << >>,
                 cl |-> << ChangelogEntry(delta[1], delta[2], RES_UPDATED,
                                          clock + 1, {}, {}) >> ]
    /\ UNCHANGED <<uuids, refint, messaging, errors, requests>>

DedupDeltas ==
    \E b \in SUBSET DeltaTriples :
        ApplyDeltas(GraphOf(store, DeltaGraph), b,
                    _dedup_deltas(GraphOf(store, DeltaGraph), b))

NextDeltas == DedupDeltas

SpecDeltas == Init /\ [][NextDeltas]_vars

\* C32: dedup(a, b) = (a - b, b - a): the two sets are disjoint, dedup of
\* the result is the result, and removing the first from a and adding the
\* second gives exactly b.
C32_DedupDeltas ==
    last.op = "_dedup_deltas" =>
        LET Holds(a, b, rem, add) ==
                /\ rem = a \ b
                /\ add = b \ a
                /\ rem \cap add = {}
                /\ _dedup_deltas(rem, add) = <<rem, add>>
                /\ (a \ rem) \cup add = b
                /\ GraphOf(store, DeltaGraph) = b
        IN  Holds(GraphOf(last.pre, DeltaGraph), last.args.payload,
                  last.cl[1].rem, last.cl[1].add)

\* the two graphs overlapped and differed both ways
C32_Witness ==
    /\ last.op = "_dedup_deltas"
    /\ GraphOf(last.pre, DeltaGraph) \cap last.args.payload # {}
    /\ last.cl[1].rem # {}
    /\ last.cl[1].add # {}


----------------------------------------------------------------------------
(* Removal of the data of a resource.                                      *)

\* the graphs whose name is a version of the main graph of u
BackupGraphs(st, u) ==
    { q[1] : q \in { x \in st : x[1][1] = "main" /\ x[1][2] = u /\ x[1][3] # "" } }

\* C33: after delete_rsrc_data(uid, backup_uid) the admin, main and
\* structure graphs of uid are empty; with a backup_uid the graph
\* main(uid, backup_uid) holds exactly what main(uid) held before, and
\* without one no backup graph is made.
C33_DataDeleted ==
    ( /\ last.op = "delete_rsrc_data"
      /\ OwnGraphs(last.pre, last.uid) # {} )
    => /\ OwnGraphs(store, last.uid) = {}
       /\ IF last.args.label # ""
            THEN GraphOf(store, _main_uri(last.uid, last.args.label))
                    = GraphOf(last.pre, _main_uri(last.uid, "")) 
          ELSE BackupGraphs(store, last.uid) = BackupGraphs(last.pre, last.uid)


----------------------------------------------------------------------------
(* Events per subject.                                                     *)

\* the events of the last operation that are about subject s
EventsAbout(s) ==
    SelectSeq(last.tr, LAMBDA item : IsEvent(item) /\ s \in item.subj)

\* the subjects the last operation changed, by its changelog
SubjectsModified ==
    UNION { Subjects(last.cl[i].rem) \cup Subjects(last.cl[i].add) :
                i \in 1..Len(last.cl) }

\* C34: a committed operation sends exactly one event for every distinct
\* subject it modified, so that a create or replace of x sends exactly one
\* event with subject fcres:x (two puts of x send two, one each).
C34_OneEventPerSubject ==
    ( /\ messaging
      /\ last.err = "ok"
      /\ last.op \in { "put", "delete" } )
    => /\ \A s \in SubjectsModified : Len(EventsAbout(s)) = 1
       /\ last.op = "put" => Len(EventsAbout(Res(last.uid))) = 1


----------------------------------------------------------------------------
(* Reverts with a backup: one resource, a version "v1", changes of the    *)
(* user triples and reverts that snapshot the resource first.              *)

MaxOpsRevert == 4

OpenRevert == clock < MaxOpsRevert /\ errors < MaxErrors

PutRevert ==
    \E n \in { "1", "2" } :
        /\ OpenRevert
        /\ Done("put", <<"a">>,
                Args({ <<Res(<<"a">>), "ex:p", Lit(n)>> }, "", TRUE, TRUE, TRUE, TRUE),
                put(Request(0), <<"a">>, { <<Res(<<"a">>), "ex:p", Lit(n)>> }))

CreateVersionRevert ==
    /\ OpenRevert
    /\ Done("create_version", <<"a">>, Args({}, "v1", TRUE, TRUE, TRUE, TRUE),
            create_version(Request(0), <<"a">>, "v1"))

RevertToVersionRevert ==
    \E label \in version_uids(store, <<"a">>) :
        /\ OpenRevert
        /\ Done("revert_to_version", <<"a">>,
                Args({}, label, TRUE, TRUE, TRUE, TRUE),
                revert_to_version(Request(0), <<"a">>, label, TRUE))

NextRevert ==
    \/ PutRevert
    \/ CreateVersionRevert
    \/ RevertToVersionRevert

SpecRevert == Init /\ [][NextRevert]_vars

\* the user statements of a set of triples, without their subject
UserPairs(trp) == { <<t[2], t[3]>> : t \in { x \in trp : x[2] \in { "ex:p", "ex:ref" } } }

\* a committed revert with backup to "v1", the only version there was
RevertedWithBackup ==
    /\ last.op = "revert_to_version"
    /\ last.args.backup
    /\ last.args.label = "v1"
    /\ last.err = "ok"
    /\ version_uids(last.pre, last.uid) = { "v1" }

----------------------------------------------------------------------------
(* Containment after a removal.                                            *)

\* a committed removal that leaves no tombstone
RemovedForGood ==
    /\ last.err = "ok"
    /\ \/ last.op = "purge"
       \/ last.op = "delete" /\ ~last.args.tstone

\* C36: the object of a stored ldp:contains triple is a live or a
\* tombstoned resource, never an absent one: a purge, and a delete that
\* leaves no tombstone, take <parent> ldp:contains <urn> away with the
\* resource, whatever inbound and the referential integrity setting are.
C36_ContainedNeverAbsent ==
    RemovedForGood =>
        \A c \in Contains(store) :
            c[2] = Res(last.uid) =>
                Live(store, last.uid) \/ Tombstoned(store, last.uid)


----------------------------------------------------------------------------
(* Single-valued server-managed statements.                                *)

\* the values resource u has for predicate p
ValuesOf(st, u, p) ==
    { t[3] : t \in { x \in OwnGraphs(st, u) : x[1] = Res(u) /\ x[2] = p } }

\* C37: after a committed post, put or revert_to_version every live
\* resource has exactly one fcrepo:created, one fcrepo:createdBy and one
\* fcrepo:lastModified statement; a post to a uid that exists does not
\* leave two creation times.
C37_SingleTimestamps ==
    ( /\ last.op \in { "post", "put", "revert_to_version" }
      /\ last.err = "ok" )
    => \A u \in UidsVers :
          Live(store, u) =>
              \A p \in { "fcrepo:created", "fcrepo:createdBy", "fcrepo:lastModified" } :
                  Cardinality(ValuesOf(store, u, p)) = 1


----------------------------------------------------------------------------
(* Two puts of the same uid at the same time.  The store gives read        *)
(* committed isolation: a request reads what is committed when it reads,   *)
(* its writes are seen by the others when it commits.                      *)

ConcUid == <<"a">>

\* the graph request r provides
ConcPayload(r) ==
    IF r = 1 THEN { <<Res(ConcUid), "ex:p", Lit("1")>> }
    ELSE { <<Res(ConcUid), "ex:p", Lit("2")>> }

\* the request starts (g.timestamp is set) and evaluates
\* create = create_only or not self.is_stored on what is committed
CheckStored(r) ==
    /\ requests[r].pc = "idle"
    /\ clock' = clock + 1
    /\ requests' = [requests EXCEPT ![r] =
            [NoRequest EXCEPT !.pc = "checked", !.ts = clock + 1,
                              !.create = WillCreate(NewCtx(store, 0, uuids, clock + 1),
                                                    ConcUid, FALSE)]]
    /\ UNCHANGED <<store, uuids, refint, messaging, errors, last>>

\* the rest of _create_or_replace_rsrc with the value of create found
\* before, on what is committed now; the writes stay in the transaction
Buffered(r, ctx) ==
    requests' = [requests EXCEPT ![r] =
        [@ EXCEPT !.pc = "written",
                  !.rem = IF Fails(ctx) THEN {} ELSE store \ ctx.ws,
                  !.add = IF Fails(ctx) THEN {} ELSE ctx.ws \ store,
                  !.cl = ctx.cl,
                  !.err = ctx.err]]

WriteRsrc(r) ==
    /\ requests[r].pc = "checked"
    /\ Buffered(r, _create_or_replace_rsrc(
                      AtomicBegin(NewCtx(store, 0, uuids, requests[r].ts)),
                      ConcUid, ConcPayload(r), requests[r].create))
    /\ UNCHANGED <<store, clock, uuids, refint, messaging, errors, last>>

\* the end of the wrapper: rollback, or commit and the events
Committed(r, ctx) ==
    /\ store' = ctx.cs
    /\ errors' = IF Fails(ctx) THEN errors + 1 ELSE errors
    /\ last' = Outcome("put", ConcUid,
                       Args(ConcPayload(r), "", TRUE, TRUE, TRUE, TRUE), ctx)
    /\ requests' = [requests EXCEPT ![r] = [@ EXCEPT !.pc = "done"]]

CommitRsrc(r) ==
    /\ requests[r].pc = "written"
    /\ Committed(r, AtomicEnd(
            [NewCtx(store, 0, uuids, requests[r].ts) EXCEPT
                !.ws = (store \ requests[r].rem) \cup requests[r].add,
                !.cl = requests[r].cl,
                !.err = requests[r].err]))
    /\ UNCHANGED <<clock, uuids, refint, messaging>>

NextConc ==
    \E r \in Reqs :
        \/ CheckStored(r)
        \/ WriteRsrc(r)
        \/ CommitRsrc(r)

SpecConc == Init /\ [][NextConc]_vars

\* the store after the put of request r and then that of request q, one
\* after the other, each with the timestamp it had
Serial(r, q) ==
    put(NewCtx(put(NewCtx(bootstrap, 0, 0, requests[r].ts),
                   ConcUid, ConcPayload(r)).cs,
               0, 0, requests[q].ts),
        ConcUid, ConcPayload(q)).cs

BothCommitted ==
    \A r \in Reqs : requests[r].pc = "done" /\ requests[r].err = "ok"

\* C38: two puts of the same uid, absent at first, that run at the same
\* time with their existence checks, writes and commits interleaved leave,
\* once both have committed, the store that the two puts leave when run
\* one after the other in some order: the resource holds the triples of
\* one request only, the later one.
C38_ConcurrentPutsSerialize ==
    BothCommitted =>
        /\ store \in { Serial(1, 2), Serial(2, 1) }
        /\ \E r \in Reqs : UserTriples(store, ConcUid) = ConcPayload(r)

====
